---- MODULE Spec2Model ----
(***************************************************************************)
(* Streaming audio analysis engine of the music visualiser                 *)
(* (crates/core/src/analysis/mod.rs), its shared handle (audio/mod.rs),    *)
(* and the scenes, render graph and recorder that consume its frames       *)
(* (scene/mod.rs, render/mod.rs, record/mod.rs).                           *)
(*                                                                         *)
(* f32 values are modelled as exact rationals <<numerator, denominator>>   *)
(* in lowest terms with a positive denominator; the f32 NaN is the pair    *)
(* <<0, 0>>.  Option<T> is modelled as a sequence: None is <<>> and        *)
(* Some(x) is <<x>>.  The engine struct is one record held by the          *)
(* variable engine; every method is an operator from an engine record      *)
(* (and its arguments) to the engine record it leaves behind (and its      *)
(* return value).                                                          *)
(***************************************************************************)
EXTENDS Integers, Sequences, FiniteSets, TLC

VARIABLES
    engine,     \* the AnalysisEngine struct
    ret,        \* the last call made on the engine and what it returned
    fed,        \* history: samples accepted by process_block since construction/reset
    onsets,     \* history: onsets registered since construction/reset
    est_saw,    \* history: the onset history handed to the tempo estimator when it last ran
    resets,     \* history: number of reset() calls made
    warm,       \* driver: TRUE while the caller still feeds the warm-up pattern
    budget,     \* driver: freely chosen blocks the caller may still feed
    shared,     \* the Mutex around the engine and the threads that call through it
    scene,      \* a SceneInstance in the hands of its caller
    graph,      \* the RenderGraph struct
    seen,       \* history: what the scenes have been given
    recorder,   \* the Recorder struct
    twin,       \* the second engine of a caller that keeps two: constructed anew when
                \* the first is reset and given the same blocks, and what it returned
    scheduler   \* the Scheduler struct

vars == <<engine, ret, fed, onsets, est_saw, resets, warm, budget, shared,
          scene, graph, seen, recorder, twin, scheduler>>

\* The variables of the scenes, the render graph, the recorder and the scheduler,
\* and those of the analysis engine apart from ret.
visuals == <<scene, graph, seen, recorder, scheduler>>

analysis_vars == <<engine, fed, onsets, est_saw, resets, warm, budget, shared, twin>>

-----------------------------------------------------------------------------
(* Exact rational arithmetic standing in for f32 arithmetic.               *)

Abs(x) == IF x < 0 THEN -x ELSE x

RECURSIVE GCD(_, _)
GCD(a, b) == IF b = 0 THEN a ELSE GCD(b, a % b)

\* n/d in lowest terms, g the greatest common divisor of |n| and |d|.
Lowest(n, d, g) ==
    IF d < 0 THEN <<(-n) \div g, (-d) \div g>> ELSE <<n \div g, d \div g>>

\* The value no comparison orders, and which every operation hands on.
NaN == <<0, 0>>

IsNaN(a) == a[2] = 0

Rat(n, d) == IF n = 0 /\ d = 0 THEN NaN ELSE Lowest(n, d, GCD(Abs(n), Abs(d)))

Zero == <<0, 1>>
One == <<1, 1>>
Half == <<1, 2>>

FromInt(n) == <<n, 1>>
RAdd(a, b) == Rat(a[1] * b[2] + b[1] * a[2], a[2] * b[2])
RSub(a, b) == Rat(a[1] * b[2] - b[1] * a[2], a[2] * b[2])
RMul(a, b) == Rat(a[1] * b[1], a[2] * b[2])
RDiv(a, b) == Rat(a[1] * b[2], a[2] * b[1])
RLt(a, b) == a[1] * b[2] < b[1] * a[2]
RLe(a, b) == ~IsNaN(a) /\ ~IsNaN(b) /\ a[1] * b[2] <= b[1] * a[2]
\* f32::max: of a NaN and a number, the number.
RMax(a, b) == IF IsNaN(a) THEN b ELSE IF RLt(a, b) THEN b ELSE a
\* f32::clamp: a NaN stays a NaN.
RClamp(x, lo, hi) == IF RLt(x, lo) THEN lo ELSE IF RLt(hi, x) THEN hi ELSE x

RECURSIVE ISqrtFrom(_, _)
ISqrtFrom(n, r) == IF (r + 1) * (r + 1) > n THEN r ELSE ISqrtFrom(n, r + 1)

\* f32::sqrt on the rationals the model feeds it, all of them squares of rationals.
RSqrt(a) == <<ISqrtFrom(a[1], 0), ISqrtFrom(a[2], 0)>>

IsSquare(a) == RMul(RSqrt(a), RSqrt(a)) = a


None == <<>>
Some(x) == <<x>>
IsSome(o) == o # <<>>
Unwrap(o) == o[1]

-----------------------------------------------------------------------------
(* Program constants.                                                      *)

BEAT_GAIN == 12
BEAT_THRESHOLD == <<3, 5>>
MIN_BEAT_INTERVAL == <<1, 5>>
MAX_BEAT_HISTORY == 32
LOW_BAND_MAX_HZ == 200
HIGH_BAND_MIN_HZ == 2000
\* f32::EPSILON = 2^-23
F32_EPSILON == <<1, 8388608>>

\* The sample rate the engine under study is constructed with: 0.2 s is three samples.
SampleRate == 15

-----------------------------------------------------------------------------
(* AnalysisFrame, AnalysisSummary and AnalysisEngine.                      *)

\* AnalysisFrame::default() with the time field overridden (sample_at, Err(0) arm).
DefaultFrame(time) ==
    [time |-> time, rms |-> Zero, spectral_centroid |-> Zero, beat_confidence |-> Zero,
     low_band_energy |-> Zero, high_band_energy |-> Zero, spectral_flux |-> Zero]

\* AnalysisSummary { sample_rate, ..Default::default() }
DefaultSummary(sample_rate) ==
    [sample_rate |-> sample_rate, tempo_bpm |-> None, duration_seconds |-> None]

with_sample_rate(sample_rate) ==
    [sample_rate |-> sample_rate,
     summary |-> DefaultSummary(sample_rate),
     frames |-> <<>>,
     processed_samples |-> 0,
     last_rms |-> Zero,
     beat_timestamps |-> <<>>,
     fft |-> None,
     previous_magnitudes |-> <<>>]

\* reset that also drops the cached transform.
reset_drops_transform(e) ==
    [e EXCEPT !.summary = DefaultSummary(e.sample_rate),
              !.frames = <<>>,
              !.processed_samples = 0,
              !.last_rms = Zero,
              !.beat_timestamps = <<>>,
              !.fft = None,
              !.previous_magnitudes = <<>>]

\* reset that clears the tempo of the summary and leaves its duration.
reset_keeps_duration(e) ==
    [e EXCEPT !.summary.tempo_bpm = None,
              !.frames = <<>>,
              !.processed_samples = 0,
              !.last_rms = Zero,
              !.beat_timestamps = <<>>,
              !.previous_magnitudes = <<>>]

\* reset that leaves the rms of the last block in place.
reset_keeps_rms(e) ==
    [e EXCEPT !.summary = DefaultSummary(e.sample_rate),
              !.frames = <<>>,
              !.processed_samples = 0,
              !.beat_timestamps = <<>>,
              !.previous_magnitudes = <<>>]

reset(e) ==
    [e EXCEPT !.summary = DefaultSummary(e.sample_rate),
              !.frames = <<>>,
              !.processed_samples = 0,
              !.last_rms = Zero,
              !.beat_timestamps = <<>>,
              !.previous_magnitudes = <<>>]

Err(kind) == [ok |-> FALSE, err |-> kind]
Ok(value) == [ok |-> TRUE, value |-> value]

-----------------------------------------------------------------------------
(* Time-domain features, onset detection and the tempo estimate.           *)

RECURSIVE SumSquares(_)
SumSquares(samples) ==
    IF samples = <<>> THEN Zero
    ELSE RAdd(RMul(Head(samples), Head(samples)), SumSquares(Tail(samples)))

compute_rms(samples) == RSqrt(RDiv(SumSquares(samples), FromInt(Len(samples))))

\* What one window of beat_timestamps.windows(2) adds to <<sum, count>>: nothing
\* unless its interval is greater than f32::EPSILON.
WindowStats(interval) ==
    IF RLt(F32_EPSILON, interval) THEN <<interval, 1>> ELSE <<Zero, 0>>

AddStats(a, b) == <<RAdd(a[1], b[1]), a[2] + b[2]>>

\* The loop of update_tempo_estimate over the windows lo .. hi - 1 of
\* beat_timestamps.windows(2): <<sum, count>>.  The windows are summed by halves,
\* which in exact arithmetic is the sum the loop accumulates from left to right.
RECURSIVE IntervalStats(_, _, _)
IntervalStats(ts, lo, hi) ==
    IF hi <= lo THEN <<Zero, 0>>
    ELSE IF hi = lo + 1 THEN WindowStats(RSub(ts[lo + 1], ts[lo]))
    ELSE AddStats(IntervalStats(ts, lo, lo + (hi - lo) \div 2),
                  IntervalStats(ts, lo + (hi - lo) \div 2, hi))

\* StoreTempo dividing by the number of onsets instead of the number of intervals.
StoreTempo_counts_beats(e, sum, count) ==
    IF count > 0 /\ RLt(Zero, RDiv(sum, FromInt(count + 1)))
    THEN [e EXCEPT !.summary.tempo_bpm =
                       Some(RDiv(FromInt(60), RDiv(sum, FromInt(count + 1))))]
    ELSE e

\* update_tempo_estimate after its loop.
StoreTempo(e, sum, count) ==
    IF count > 0 /\ RLt(Zero, RDiv(sum, FromInt(count)))
    THEN [e EXCEPT !.summary.tempo_bpm =
                       Some(RDiv(FromInt(60), RDiv(sum, FromInt(count))))]
    ELSE e

TempoFromStats(e, stats) == StoreTempo(e, stats[1], stats[2])

update_tempo_estimate(e) ==
    IF Len(e.beat_timestamps) < 2 THEN e
    ELSE TempoFromStats(e, IntervalStats(e.beat_timestamps, 1, Len(e.beat_timestamps)))

\* DrainOverflow with `>=` for `>`: the history is cut one entry short.
DrainOverflow_keeps_one_less(ts) ==
    IF Len(ts) >= MAX_BEAT_HISTORY
    THEN SubSeq(ts, Len(ts) - MAX_BEAT_HISTORY + 2, Len(ts))
    ELSE ts

\* DrainOverflow truncating instead of draining the front: the newest entry goes.
DrainOverflow_drops_newest(ts) ==
    IF Len(ts) > MAX_BEAT_HISTORY THEN SubSeq(ts, 1, MAX_BEAT_HISTORY) ELSE ts

\* beat_timestamps.drain(0..overflow) when the history is longer than MAX_BEAT_HISTORY.
DrainOverflow(ts) ==
    IF Len(ts) > MAX_BEAT_HISTORY
    THEN SubSeq(ts, Len(ts) - MAX_BEAT_HISTORY + 1, Len(ts))
    ELSE ts

\* update_beats once the history, pushed and capped, is history: the estimator runs.
\* tempo_input is the onset history as update_tempo_estimate receives it.
EstimateOn(e, history) ==
    [engine |-> update_tempo_estimate([e EXCEPT !.beat_timestamps = history]),
     tempo_input |-> Some(history)]

\* push_onset with the estimator called before the drain.
push_onset_caps_after_estimate(e, timestamp) ==
    [engine |->
        [update_tempo_estimate(
             [e EXCEPT !.beat_timestamps = Append(e.beat_timestamps, timestamp)])
         EXCEPT !.beat_timestamps = DrainOverflow(Append(e.beat_timestamps, timestamp))],
     tempo_input |-> Some(Append(e.beat_timestamps, timestamp))]

\* The body of the two nested ifs of update_beats: push, cap, estimate.
push_onset(e, timestamp) ==
    EstimateOn(e, DrainOverflow(Append(e.beat_timestamps, timestamp)))

\* Confidence taking the size of the change in rms, a fall included.
Confidence_of_any_change(last_rms, rms) ==
    RClamp(RMul(RMax(RSub(rms, last_rms), RSub(last_rms, rms)), FromInt(BEAT_GAIN)),
           Zero, One)

\* let delta ..; let confidence ..
Confidence(last_rms, rms) ==
    RClamp(RMul(RMax(RSub(rms, last_rms), Zero), FromInt(BEAT_GAIN)), Zero, One)

\* OnsetGate with `>` for `>=` at the threshold.
OnsetGate_above_threshold(beat_timestamps, timestamp, confidence) ==
    /\ RLt(BEAT_THRESHOLD, confidence)
    /\ \/ beat_timestamps = <<>>
       \/ RLe(MIN_BEAT_INTERVAL,
              RSub(timestamp, beat_timestamps[Len(beat_timestamps)]))

\* OnsetGate without the refractory interval.
OnsetGate_ignores_interval(beat_timestamps, timestamp, confidence) ==
    RLe(BEAT_THRESHOLD, confidence)

\* The two conditions under which update_beats registers an onset.
OnsetGate(beat_timestamps, timestamp, confidence) ==
    /\ RLe(BEAT_THRESHOLD, confidence)
    /\ \/ beat_timestamps = <<>>
       \/ RLe(MIN_BEAT_INTERVAL,
              RSub(timestamp, beat_timestamps[Len(beat_timestamps)]))

\* RegisterOnset withdrawing the tempo when the block is no onset.
RegisterOnset_clears_tempo(e1, timestamp, confidence) ==
    IF OnsetGate(e1.beat_timestamps, timestamp, confidence)
    THEN push_onset(e1, timestamp) @@ [confidence |-> confidence]
    ELSE [engine |-> [e1 EXCEPT !.summary.tempo_bpm = None],
          confidence |-> confidence, tempo_input |-> None]

\* update_beats after last_rms is stored (e1) and the confidence computed.
RegisterOnset(e1, timestamp, confidence) ==
    IF OnsetGate(e1.beat_timestamps, timestamp, confidence)
    THEN push_onset(e1, timestamp) @@ [confidence |-> confidence]
    ELSE [engine |-> e1, confidence |-> confidence, tempo_input |-> None]

\* update_beats storing the rms only of the blocks it registers as onsets.
update_beats_remembers_onsets(e, timestamp, rms) ==
    IF OnsetGate(e.beat_timestamps, timestamp, Confidence(e.last_rms, rms))
    THEN RegisterOnset([e EXCEPT !.last_rms = rms], timestamp, Confidence(e.last_rms, rms))
    ELSE [engine |-> e, confidence |-> Confidence(e.last_rms, rms), tempo_input |-> None]

update_beats(e, timestamp, rms) ==
    RegisterOnset([e EXCEPT !.last_rms = rms], timestamp, Confidence(e.last_rms, rms))

-----
(* Spectral transform manager and frequency feature extractor.             *)

\* cos(2*pi*k/m), for the m at which it is rational.
CosTurn(k, m) ==
    LET r == k % m
    IN  CASE m = 1 -> One
          [] m = 2 -> IF r = 0 THEN One ELSE <<-1, 1>>
          [] m = 3 -> IF r = 0 THEN One ELSE <<-1, 2>>
          [] m = 4 -> IF r = 0 THEN One ELSE IF r = 2 THEN <<-1, 1>> ELSE Zero
          [] m = 6 -> IF r = 0 THEN One
                      ELSE IF r = 3 THEN <<-1, 1>>
                      ELSE IF r \in {1, 5} THEN Half ELSE <<-1, 2>>

\* sin(2*pi*k/m) = SinTurn(k, m) * sqrt(Radicand(m)).
Radicand(m) == IF m \in {3, 6} THEN 3 ELSE 1

SinTurn(k, m) ==
    LET r == k % m
    IN  CASE m \in {1, 2} -> Zero
          [] m = 3 -> IF r = 0 THEN Zero ELSE IF r = 1 THEN Half ELSE <<-1, 2>>
          [] m = 4 -> IF r = 1 THEN One ELSE IF r = 3 THEN <<-1, 1>> ELSE Zero
          [] m = 6 -> IF r \in {0, 3} THEN Zero
                      ELSE IF r \in {1, 2} THEN Half ELSE <<-1, 2>>

hann_value(index, len) ==
    IF len <= 1 THEN One
    ELSE RSub(Half, RMul(Half, CosTurn(index, len - 1)))

\* fft.input after the windowing loop.
WindowedInput(samples) ==
    [index \in 1..Len(samples) |->
        RMul(samples[index], hann_value(index - 1, Len(samples)))]

\* Bin k of the forward real-to-complex transform of input, summed from sample j on
\* onto re + i * im * sqrt(Radicand(Len(input))).
RECURSIVE BinFrom(_, _, _, _, _)
BinFrom(input, k, j, re, im) ==
    IF j > Len(input) THEN [re |-> re, im |-> im]
    ELSE BinFrom(input, k, j + 1,
                 RAdd(re, RMul(input[j], CosTurn((j - 1) * k, Len(input)))),
                 RSub(im, RMul(input[j], SinTurn((j - 1) * k, Len(input)))))

\* The square of Complex32::norm.
NormSquared(bin, radicand) ==
    RAdd(RMul(bin.re, bin.re), RMul(FromInt(radicand), RMul(bin.im, bin.im)))

BinNormSquared(input, k) ==
    NormSquared(BinFrom(input, k, 1, Zero, Zero), Radicand(Len(input)))

\* The magnitudes of fft.spectrum, Len(input) / 2 + 1 bins.
Magnitudes(input) ==
    [i \in 1..(Len(input) \div 2 + 1) |-> RSqrt(BinNormSquared(input, i - 1))]

MagnitudeSpectrum(samples) == Magnitudes(WindowedInput(samples))

\* Every square root taken on the way from samples to features is exact.
ExactBlock(samples) ==
    Len(samples) > 0 =>
        /\ IsSquare(RDiv(SumSquares(samples), FromInt(Len(samples))))
        /\ \A k \in 0..(Len(samples) \div 2) :
               IsSquare(BinNormSquared(WindowedInput(samples), k))

\* FftResources { size, plan, scratch, spectrum, input } freshly built: the record
\* keeps the size, and alloc, which stands for the buffers allocated and differs
\* from that of the resources replaced, so that rebuilt resources are told from
\* kept ones of the same size.
FftResources(fft, size) ==
    [size |-> size, alloc |-> IF IsSome(fft) THEN 1 - Unwrap(fft).alloc ELSE 0]

\* let rebuild = self.fft.as_ref().map(|fft| fft.size != size).unwrap_or(true)
rebuild(fft, size) ==
    IF IsSome(fft) THEN Unwrap(fft).size # size ELSE TRUE

\* prepare_fft that builds its resources anew on every call.
prepare_fft_rebuilds_always(e, size) ==
    [e EXCEPT !.fft = Some(FftResources(e.fft, size))]

prepare_fft(e, size) ==
    IF rebuild(e.fft, size)
    THEN [e EXCEPT !.fft = Some(FftResources(e.fft, size))]
    ELSE e

\* Vec::resize(new_len, 0.0)
Resize(v, new_len) ==
    [i \in 1..new_len |-> IF i <= Len(v) THEN v[i] ELSE Zero]

\* BandTerm with bands that leave out their cutoffs: `<` for `<=`, `>` for `>=`.
BandTerm_open_bands(magnitude, frequency, what) ==
    CASE what = "magnitude" -> magnitude
      [] what = "weighted" -> RMul(magnitude, frequency)
      [] what = "low_band" ->
            IF RLt(frequency, FromInt(LOW_BAND_MAX_HZ)) THEN magnitude ELSE Zero
      [] what = "high_band" ->
            IF RLt(FromInt(HIGH_BAND_MIN_HZ), frequency) THEN magnitude ELSE Zero

\* What bin i (0-based) of frequency i * bin_hz adds to the sum named what.
BandTerm(magnitude, frequency, what) ==
    CASE what = "magnitude" -> magnitude
      [] what = "weighted" -> RMul(magnitude, frequency)
      [] what = "low_band" ->
            IF RLe(frequency, FromInt(LOW_BAND_MAX_HZ)) THEN magnitude ELSE Zero
      [] what = "high_band" ->
            IF RLe(FromInt(HIGH_BAND_MIN_HZ), frequency) THEN magnitude ELSE Zero

\* The loop over fft.spectrum for one of its four sums, from bin i (0-based) on.
RECURSIVE BandSum(_, _, _, _, _)
BandSum(magnitudes, bin_hz, what, i, sum) ==
    IF i >= Len(magnitudes) THEN sum
    ELSE BandSum(magnitudes, bin_hz, what, i + 1,
                 RAdd(sum, BandTerm(magnitudes[i + 1], RMul(FromInt(i), bin_hz), what)))

\* The flux loop with `.abs()` for `.max(0.0)`: a bin that fell counts as well.
RECURSIVE PositiveDifference_absolute(_, _, _, _)
PositiveDifference_absolute(magnitudes, previous, i, flux) ==
    IF i > Len(magnitudes) THEN flux
    ELSE PositiveDifference_absolute(
             magnitudes, previous, i + 1,
             RAdd(flux, RMax(RSub(magnitudes[i], previous[i]),
                             RSub(previous[i], magnitudes[i]))))

\* The flux loop, from bin i (1-based) on.
RECURSIVE PositiveDifference(_, _, _, _)
PositiveDifference(magnitudes, previous, i, flux) ==
    IF i > Len(magnitudes) THEN flux
    ELSE PositiveDifference(magnitudes, previous, i + 1,
                            RAdd(flux, RMax(RSub(magnitudes[i], previous[i]), Zero)))

\* self.previous_magnitudes after the resize that precedes the flux loop.
ResizedPrevious(previous_magnitudes, len) ==
    IF Len(previous_magnitudes) # len
    THEN Resize(previous_magnitudes, len)
    ELSE previous_magnitudes

\* let epsilon = 1e-6
FeatureEpsilon == <<1, 1000000>>

\* The closure normalise of compute_frequency_features.
normalise(value, magnitude_sum) ==
    IF RLe(magnitude_sum, FeatureEpsilon) THEN Zero
    ELSE RClamp(RDiv(value, magnitude_sum), Zero, One)

\* compute_frequency_features from `let centroid_hz` on.
FeaturesFromSums(magnitude_sum, weighted_sum, low_band_sum, high_band_sum, flux, first_block) ==
    [centroid_hz |-> IF RLe(magnitude_sum, FeatureEpsilon) THEN Zero
                     ELSE RDiv(weighted_sum, magnitude_sum),
     low_band_energy |-> normalise(low_band_sum, magnitude_sum),
     high_band_energy |-> normalise(high_band_sum, magnitude_sum),
     spectral_flux |-> IF first_block THEN Zero
                       ELSE IF RLe(magnitude_sum, FeatureEpsilon) THEN Zero
                       ELSE RClamp(RDiv(flux, magnitude_sum), Zero, One)]

\* SpectralFeatures leaving the previous-magnitude buffer zero-filled on the block
\* whose flux is suppressed.
SpectralFeatures_skips_first_block(e1, magnitudes, bin_hz, first_block) ==
    [engine |->
        [e1 EXCEPT !.previous_magnitudes =
                       IF first_block THEN Resize(<<>>, Len(magnitudes)) ELSE magnitudes],
     features |->
        FeaturesFromSums(
            BandSum(magnitudes, bin_hz, "magnitude", 0, Zero),
            BandSum(magnitudes, bin_hz, "weighted", 0, Zero),
            BandSum(magnitudes, bin_hz, "low_band", 0, Zero),
            BandSum(magnitudes, bin_hz, "high_band", 0, Zero),
            IF ~first_block
            THEN PositiveDifference(
                     magnitudes,
                     ResizedPrevious(e1.previous_magnitudes, Len(magnitudes)), 1, Zero)
            ELSE Zero,
            first_block)]

\* compute_frequency_features once the transform has run: e1 is the engine after
\* prepare_fft, magnitudes the magnitude spectrum of the block.
SpectralFeatures(e1, magnitudes, bin_hz, first_block) ==
    [engine |-> [e1 EXCEPT !.previous_magnitudes = magnitudes],
     features |->
        FeaturesFromSums(
            BandSum(magnitudes, bin_hz, "magnitude", 0, Zero),
            BandSum(magnitudes, bin_hz, "weighted", 0, Zero),
            BandSum(magnitudes, bin_hz, "low_band", 0, Zero),
            BandSum(magnitudes, bin_hz, "high_band", 0, Zero),
            IF ~first_block
            THEN PositiveDifference(
                     magnitudes,
                     ResizedPrevious(e1.previous_magnitudes, Len(magnitudes)), 1, Zero)
            ELSE Zero,
            first_block)]

compute_frequency_features(e, samples, first_block) ==
    SpectralFeatures(prepare_fft(e, Len(samples)), MagnitudeSpectrum(samples),
                     RDiv(FromInt(e.sample_rate), FromInt(Len(samples))), first_block)

-----------------------------------------------------------------------------
(* Frame history and query engine.                                         *)

\* Midpoint stamping the block with its end.
Midpoint_at_end(start_time, end_time) ==
    [start_time |-> start_time, end_time |-> end_time, timestamp |-> end_time]

\* let timestamp = start_time + (end_time - start_time) * 0.5
Midpoint(start_time, end_time) ==
    [start_time |-> start_time,
     end_time |-> end_time,
     timestamp |-> RAdd(start_time, RMul(RSub(end_time, start_time), Half))]

\* start_time, end_time and timestamp of a block of block_size samples.
block_times(e, block_size) ==
    Midpoint(RDiv(FromInt(e.processed_samples), FromInt(e.sample_rate)),
             RDiv(FromInt(e.processed_samples + block_size), FromInt(e.sample_rate)))

\* let nyquist ..; let spectral_centroid ..
SpectralCentroid(centroid_hz, nyquist) ==
    IF RLt(Zero, nyquist) THEN RClamp(RDiv(centroid_hz, nyquist), Zero, One) ELSE Zero

\* RaisedDuration that sets the duration once and never raises it.
RaisedDuration_keeps_first(duration_seconds, end_time) ==
    IF IsSome(duration_seconds) THEN Unwrap(duration_seconds) ELSE end_time

\* summary.duration_seconds.map(|d| d.max(end_time)).unwrap_or(end_time)
RaisedDuration(duration_seconds, end_time) ==
    IF IsSome(duration_seconds) THEN RMax(Unwrap(duration_seconds), end_time)
    ELSE end_time

\* EmitFrame without `self.processed_samples += block_size`.
EmitFrame_keeps_counter(e2, block_size, end_time, frame, tempo_input) ==
    [engine |-> [e2 EXCEPT !.summary.duration_seconds = Some(RaisedDuration(@, end_time)),
                           !.frames = Append(@, frame)],
     result |-> Ok(frame),
     tempo_input |-> tempo_input]

\* process_block from `self.processed_samples += block_size` on: e2 is the engine
\* after update_beats and compute_frequency_features.
EmitFrame(e2, block_size, end_time, frame, tempo_input) ==
    [engine |-> [e2 EXCEPT !.processed_samples = @ + block_size,
                           !.summary.duration_seconds = Some(RaisedDuration(@, end_time)),
                           !.frames = Append(@, frame)],
     result |-> Ok(frame),
     tempo_input |-> tempo_input]

\* process_block after compute_frequency_features has returned freq.
FrequencyDomain(e, block_size, times, rms, beats, freq) ==
    EmitFrame(freq.engine, block_size, times.end_time,
              [time |-> times.timestamp,
               rms |-> rms,
               spectral_centroid |->
                   SpectralCentroid(freq.features.centroid_hz,
                                    RMul(RMax(FromInt(e.sample_rate), One), Half)),
               beat_confidence |-> beats.confidence,
               low_band_energy |-> freq.features.low_band_energy,
               high_band_energy |-> freq.features.high_band_energy,
               spectral_flux |-> freq.features.spectral_flux],
              beats.tempo_input)

\* TimeDomain that never tells compute_frequency_features the block is the first.
TimeDomain_never_first(e, samples, times, rms, beats) ==
    FrequencyDomain(e, Len(samples), times, rms, beats,
                    compute_frequency_features(beats.engine, samples, FALSE))

\* process_block after update_beats has returned beats.
TimeDomain(e, samples, times, rms, beats) ==
    FrequencyDomain(e, Len(samples), times, rms, beats,
                    compute_frequency_features(beats.engine, samples,
                                               e.processed_samples = 0))

\* process_block once the timestamps and the rms of the block are known.
Analyse(e, samples, times, rms) ==
    TimeDomain(e, samples, times, rms, update_beats(e, times.timestamp, rms))

\* process_block from `let block_size` on: the block has passed validation.
analyse_block(e, samples) ==
    Analyse(e, samples, block_times(e, Len(samples)), compute_rms(samples))

\* process_block checking the length only after the onset detector has run.
process_block_validates_late(e, samples) ==
    IF Len(samples) = 0
    THEN [engine |-> e, result |-> Err("InvalidInput"), tempo_input |-> None]
    ELSE IF Len(samples) < 2
    THEN [engine |-> update_beats(e, block_times(e, Len(samples)).timestamp,
                                  compute_rms(samples)).engine,
          result |-> Err("InvalidInput"), tempo_input |-> None]
    ELSE analyse_block(e, samples)

process_block(e, samples) ==
    IF Len(samples) = 0
    THEN [engine |-> e, result |-> Err("InvalidInput"), tempo_input |-> None]
    ELSE IF Len(samples) < 2
    THEN [engine |-> e, result |-> Err("InvalidInput"), tempo_input |-> None]
    ELSE analyse_block(e, samples)

\* process_block advancing the sample counter before the transform has run.
TransformFailed_counts_block(e, samples, beats) ==
    [engine |-> [prepare_fft(beats.engine, Len(samples))
                     EXCEPT !.processed_samples = @ + Len(samples)],
     result |-> Err("Message"),
     tempo_input |-> beats.tempo_input]

\* process_block when process_with_scratch returns Err: update_beats has returned
\* beats, prepare_fft has run, and the two `?` hand the error, converted to
\* MusicVizError::Message, to the caller.
TransformFailed(e, samples, beats) ==
    [engine |-> prepare_fft(beats.engine, Len(samples)),
     result |-> Err("Message"),
     tempo_input |-> beats.tempo_input]

\* process_block on a block whose transform reports an error.
process_block_transform_error(e, samples) ==
    IF Len(samples) < 2 THEN process_block(e, samples)
    ELSE TransformFailed(e, samples,
                         update_beats(e, block_times(e, Len(samples)).timestamp,
                                      compute_rms(samples)))

latest_frame(e) ==
    IF e.frames = <<>> THEN None ELSE Some(e.frames[Len(e.frames)])

\* f32::partial_cmp
partial_cmp(a, b) ==
    IF a = NaN \/ b = NaN THEN None
    ELSE IF RLt(a, b) THEN Some("Less")
    ELSE IF RLt(b, a) THEN Some("Greater")
    ELSE Some("Equal")

\* The comparator sample_at hands to binary_search_by.
UnwrapOr(found, default) == IF IsSome(found) THEN Unwrap(found) ELSE default

compare_to(frame, time) == UnwrapOr(partial_cmp(frame.time, time), "Equal")

\* slice::binary_search_by on frames[left..right) (0-based): <<"Ok", index>> or
\* <<"Err", index>>.  The loop of the standard library up to Rust 1.81.
RECURSIVE binary_search_by(_, _, _, _)
binary_search_by(frames, time, left, right) ==
    IF left >= right THEN <<"Err", left>>
    ELSE LET mid == left + (right - left) \div 2
             cmp == compare_to(frames[mid + 1], time)
         IN  IF cmp = "Less" THEN binary_search_by(frames, time, mid + 1, right)
             ELSE IF cmp = "Greater" THEN binary_search_by(frames, time, left, mid)
             ELSE <<"Ok", mid>>

\* The loop of the standard library from Rust 1.82 on, which may settle on another
\* of several elements that compare Equal.
RECURSIVE binary_search_branchless(_, _, _, _)
binary_search_branchless(frames, time, base, size) ==
    IF size = 0 THEN <<"Err", 0>>
    ELSE IF size > 1
    THEN LET half == size \div 2
             mid == base + half
             cmp == compare_to(frames[mid + 1], time)
         IN  binary_search_branchless(frames, time,
                                      IF cmp = "Greater" THEN base ELSE mid, size - half)
    ELSE LET cmp == compare_to(frames[base + 1], time)
         IN  IF cmp = "Equal" THEN <<"Ok", base>>
             ELSE <<"Err", base + (IF cmp = "Less" THEN 1 ELSE 0)>>

\* What binary_search_by may return, over the standard libraries the crate builds with.
SearchOutcomes(frames, time) ==
    {binary_search_by(frames, time, 0, Len(frames)),
     binary_search_branchless(frames, time, 0, Len(frames))}

\* The match of sample_at on the search result found.
sample_at_arms(e, time, found) ==
    IF found[1] = "Ok" THEN e.frames[found[2] + 1]
    ELSE IF found[2] = 0 THEN DefaultFrame(time)
    ELSE e.frames[found[2]]

\* The frames sample_at(time) may return.
sample_at(e, time) ==
    {sample_at_arms(e, time, found) : found \in SearchOutcomes(e.frames, time)}

-----------------------------------------------------------------------------
(* AudioEngine and AnalysisHandle (crates/core/src/audio/mod.rs): the      *)
(* engine behind Arc<Mutex<..>>.  The variable engine is the value inside  *)
(* the Mutex.                                                              *)

\* The thread that owns the AudioEngine and a thread that holds an AnalysisHandle.
Threads == {"audio", "render"}

\* Arc::new(Mutex::new(analysis)) with no call under way.  committed is the
\* engine as the last completed writer left it, handles the AnalysisHandles that
\* start() has returned so far.
NewShared(analysis) ==
    [holder |-> "none",
     poisoned |-> FALSE,
     pc |-> [t \in Threads |-> "idle"],
     call |-> [t \in Threads |-> [op |-> "none"]],
     done |-> [t \in Threads |-> [op |-> "none"]],
     committed |-> analysis,
     handles |-> <<>>]

\* A handle on an engine of its own, a copy of the one behind the Mutex.
AnalysisHandle_new_detached(e) == [shared |-> "copy", value |-> e]

\* AnalysisHandle::new(self.analysis.clone()): the handle holds the Arc of the
\* AudioEngine, whatever engine e is behind it.
AnalysisHandle_new(e) == [shared |-> "analysis"]

\* The engine behind the Mutex a handle points to, where e is the engine of the
\* AudioEngine.
Behind(handle, e) == IF handle.shared = "analysis" THEN e ELSE handle.value

\* Mutex::lock hands out the guard at once with every thread.
MutexFree_always(sh) == TRUE

\* Mutex::lock blocks while another guard is alive.
MutexFree(sh) == sh.holder = "none"

\* lock_analysis and AnalysisHandle::lock: the PoisonError of a poisoned Mutex is
\* mapped to MusicVizError::msg(..), the variant Message.
lock_result(sh) == IF sh.poisoned THEN Err("Message") ELSE Ok("guard")

\* What a reader is handed of the engine: frames through sample_at, the summary.
View(e) ==
    [frames |-> e.frames, processed_samples |-> e.processed_samples,
     summary |-> e.summary]

\* The first thing a call does with the guard.
FirstStep(op) ==
    CASE op = "start" -> "reset"
      [] op = "push_samples" -> "update_beats"
      [] op \in {"sample_at", "summary"} -> "read"

-----------------------------------------------------------------------------
(* SceneInstance (crates/core/src/scene/mod.rs), RenderGraph                *)
(* (crates/core/src/render/mod.rs) and Recorder (crates/core/src/record/   *)
(* mod.rs).  A HashMap<String, f32> is a function from the keys it holds.  *)

\* HashMap::new()
NoParameters == [key \in {} |-> Zero]

\* HashMap::insert
insert(parameters, key, value) ==
    [k \in DOMAIN parameters \cup {key} |-> IF k = key THEN value ELSE parameters[k]]

\* HashMap::entry(key).or_insert(value)
or_insert(parameters, key, value) ==
    IF key \in DOMAIN parameters THEN parameters ELSE insert(parameters, key, value)

SceneInstance_new(descriptor) ==
    [descriptor |-> descriptor, parameters |-> NoParameters, last_analysis |-> None]

\* The loop of SceneInstance::apply_updates, from update number i on.
RECURSIVE InsertAll(_, _, _)
InsertAll(parameters, updates, i) ==
    IF i > Len(updates) THEN parameters
    ELSE InsertAll(insert(parameters, updates[i].target, updates[i].value), updates, i + 1)

\* SceneInstance::apply_updates
scene_apply_updates(s, updates) ==
    [s EXCEPT !.parameters = InsertAll(@, updates, 1)]

\* The keys and values of the match arm of SceneInstance::update for descriptor.
Defaults(descriptor, frame) ==
    CASE descriptor.type = "stl" ->
            <<[target |-> "stl.rms", value |-> frame.rms],
              [target |-> "stl.centroid", value |-> frame.spectral_centroid]>>
      [] descriptor.type = "kaleidoscope" ->
            <<[target |-> "kaleidoscope.rotation",
               value |-> RMul(frame.beat_confidence,
                              FromInt(IF descriptor.order > 1 THEN descriptor.order ELSE 1))]>>
      [] descriptor.type = "tunnel" ->
            <<[target |-> "tunnel.energy", value |-> frame.rms]>>
      [] descriptor.type = "particles" ->
            <<[target |-> "particles.emission", value |-> frame.rms],
              [target |-> "particles.tone", value |-> frame.spectral_centroid]>>

\* The entry(..).or_insert(..) calls of one match arm, from number i on.
RECURSIVE OrInsertAll(_, _, _)
OrInsertAll(parameters, defaults, i) ==
    IF i > Len(defaults) THEN parameters
    ELSE OrInsertAll(or_insert(parameters, defaults[i].target, defaults[i].value),
                     defaults, i + 1)

\* update with insert for entry(..).or_insert(..): every frame sets the parameters anew.
update_overwrites(s, frame) ==
    [s EXCEPT !.last_analysis = Some(frame),
              !.parameters = InsertAll(@, Defaults(s.descriptor, frame), 1)]

\* SceneInstance::update
update(s, frame) ==
    [s EXCEPT !.last_analysis = Some(frame),
              !.parameters = OrInsertAll(@, Defaults(s.descriptor, frame), 1)]

RenderGraph_new == [scenes |-> <<>>, last_updates |-> <<>>, current_analysis |-> None]

register_scene(g, s) == [g EXCEPT !.scenes = Append(@, s)]

\* RenderGraph::apply_updates
apply_updates(g, updates) ==
    [g EXCEPT !.last_updates = updates,
              !.scenes = [i \in 1..Len(@) |-> scene_apply_updates(@[i], updates)]]

ingest_analysis_frame(g, frame) ==
    [g EXCEPT !.scenes = [i \in 1..Len(@) |-> update(@[i], frame)],
              !.current_analysis = Some(frame)]

\* draw asking whether the graph, not each scene, has had a frame.
draw_asks_the_graph(g) ==
    IF g.scenes = <<>> THEN Ok("unit")
    ELSE IF IsSome(g.current_analysis) THEN Ok("unit")
    ELSE Err("Message")

draw(g) ==
    IF g.scenes = <<>> THEN Ok("unit")
    ELSE IF \A i \in 1..Len(g.scenes) : IsSome(g.scenes[i].last_analysis) THEN Ok("unit")
    ELSE Err("Message")

\* RecordingSettings::default() and RecordingSettings::enabled()
\* Scheduler::new()
Scheduler_new == [events |-> <<>>]

\* ScheduledEvent::new(timestamp, label)
ScheduledEvent_new(timestamp, label) ==
    [timestamp |-> timestamp, label |-> label, last_analysis |-> None]

\* The comparator of add_event, a.timestamp.partial_cmp(&b.timestamp).unwrap(),
\* panics on some pair of events: a sort of two events and more compares every
\* event with another, and no comparison orders a timestamp that is not a number.
ComparatorPanics(events) ==
    /\ Len(events) >= 2
    /\ \E i \in 1..Len(events) : partial_cmp(events[i].timestamp, events[i].timestamp) = None

\* event put into sorted behind every event that is not later than it.
InsertBehindEqual(sorted, event) ==
    SubSeq(sorted, 1, Cardinality({i \in 1..Len(sorted) :
                                      partial_cmp(event.timestamp, sorted[i].timestamp)
                                          # Some("Less")}))
        \o <<event>>
        \o SubSeq(sorted, 1 + Cardinality({i \in 1..Len(sorted) :
                                               partial_cmp(event.timestamp, sorted[i].timestamp)
                                                   # Some("Less")}),
                  Len(sorted))

\* slice::sort_by with the comparator of add_event, on events it orders: the sort
\* is stable, events of equal timestamp keep the order they had.
RECURSIVE sort_by(_, _, _)
sort_by(events, i, sorted) ==
    IF i > Len(events) THEN sorted
    ELSE sort_by(events, i + 1, InsertBehindEqual(sorted, events[i]))

\* The orders a sort that panics may leave the events in.
Orders(events) ==
    {[i \in 1..Len(events) |-> events[p[i]]] :
         p \in {q \in [1..Len(events) -> 1..Len(events)] :
                    \A i, j \in 1..Len(events) : q[i] = q[j] => i = j}}

\* Scheduler::add_event(event): the scheduler it may leave, and whether the call
\* returned or panicked.
add_event(sch, event) ==
    IF ComparatorPanics(Append(sch.events, event))
    THEN {[scheduler |-> [sch EXCEPT !.events = events], result |-> "panicked"] :
              events \in Orders(Append(sch.events, event))}
    ELSE {[scheduler |-> [sch EXCEPT !.events = sort_by(Append(@, event), 1, <<>>)],
           result |-> "returned"]}

\* The while loop of tick: events leave the front of the queue for triggered
\* while the first of them is not later than now.
RECURSIVE Trigger(_, _, _)
Trigger(events, now, triggered) ==
    IF events # <<>> /\ RLe(Head(events).timestamp, now)
    THEN Trigger(Tail(events), now, Append(triggered, Head(events)))
    ELSE [events |-> events, triggered |-> triggered]

\* for event in &mut triggered { event.last_analysis = Some(analysis.clone()) }
Stamped(triggered, analysis) ==
    [i \in 1..Len(triggered) |-> [triggered[i] EXCEPT !.last_analysis = Some(analysis)]]

\* Scheduler::tick(now, analysis)
tick(sch, now, analysis) ==
    [scheduler |-> [sch EXCEPT !.events = Trigger(sch.events, now, <<>>).events],
     result |-> Stamped(Trigger(sch.events, now, <<>>).triggered, analysis)]

RecordingSettings_default == [enabled |-> FALSE, output_path |-> None]

RecordingSettings_enabled == [RecordingSettings_default EXCEPT !.enabled = TRUE]

\* Recorder::new; the capacity of frames is not part of the state.
Recorder_new(settings) ==
    [settings |-> settings, recorded_frames |-> 0, frames |-> <<>>]

configure(r, settings) ==
    [r EXCEPT !.settings = settings, !.frames = <<>>, !.recorded_frames = 0]

set_output_path(r, path) == [r EXCEPT !.settings.output_path = Some(path)]

\* record_frame counting the frames it is handed, kept or not.
record_frame_counts_all(r, frame) ==
    IF ~r.settings.enabled THEN [r EXCEPT !.recorded_frames = @ + 1]
    ELSE [r EXCEPT !.frames = Append(@, frame), !.recorded_frames = @ + 1]

record_frame(r, frame) ==
    IF ~r.settings.enabled THEN r
    ELSE [r EXCEPT !.frames = Append(@, frame), !.recorded_frames = @ + 1]

-----------------------------------------------------------------------------
(* The caller: the blocks it feeds and how many.                           *)

Quiet == Zero
Soft == <<1, 25>>
Medium == <<1, 20>>
Loud == <<1, 10>>
Peak == <<1, 5>>

Quiet2 == <<Quiet, Quiet>>
Loud2 == <<Loud, Loud>>
Soft3 == <<Soft, Soft, Soft>>
Medium3 == <<Medium, Medium, Medium>>
Quiet4 == <<Quiet, Quiet, Quiet, Quiet>>
Click4 == <<Quiet, Peak, Quiet, Quiet>>

Loud3 == <<Loud, Loud, Loud>>
Chord4 == <<Quiet, <<3, 10>>, <<2, 5>>, Quiet>>

\* A block with a sample that is not a number: a slice of f32 may hold one, and
\* process_block looks at the length of the slice only.
Broken2 == <<Loud, NaN>>

\* Four samples with most of their magnitude at the top of the spectrum.
Hiss4 == <<Quiet, <<3, 10>>, <<-2, 5>>, Quiet>>

ValidBlocks == {Quiet2, Loud2, Soft3, Medium3, Quiet4, Click4}
InvalidBlocks == {<<>>, <<Loud>>}
Blocks == ValidBlocks \cup InvalidBlocks

\* The blocks of a caller that does not look at its samples.
RawBlocks == {Quiet2, Loud2, Medium3, Broken2}

\* The blocks and the sample rates of a caller that looks at the two bands: the
\* bins of the blocks lie at 0, 200 and 400 Hz, at 0, 1000 and 2000 Hz and at
\* 0, 2000 Hz, among others.
BandBlocks == {Quiet2, Medium3, Click4, Chord4, Hiss4}

BandRates == {800, 4000, 6000}

\* The loud blocks of the alternating patterns of tests::updates_duration_and_tempo,
\* and the quiet block of n samples.
PatternBlocks == {Loud2, Soft3, Medium3, Loud3, Click4, Chord4}

QuietOf(n) == [i \in 1..n |-> Quiet]

\* The frames so far are those of equal-length blocks, quiet and loud in turn,
\* starting with the quiet one iff quiet_first.
PatternChoice(e, loud, quiet_first) ==
    IF e.frames = <<>> THEN TRUE
    ELSE /\ e.frames[1].time = Rat(Len(loud), 2 * e.sample_rate)
         /\ quiet_first = (e.frames[1].rms = Zero)
         /\ \A i \in 1..Len(e.frames) : e.frames[i].rms \in {Zero, compute_rms(loud)}

\* Block number k (0-based) of that pattern.
PatternBlock(loud, quiet_first, k) ==
    IF (k % 2 = 0) = quiet_first THEN QuietOf(Len(loud)) ELSE loud

\* Block number i (0-based) of the warm-up pattern: quiet and loud blocks in turn,
\* the quiet ones of two lengths so that successive onsets are unevenly spaced.
WarmBlock(i) ==
    IF i % 2 = 1 THEN Loud2
    ELSE IF (i \div 2) % 2 = 0 THEN Quiet2 ELSE Quiet4

MaxBlocks == 4
MaxWarm == 70
MaxFree == 1
MaxResets == 1
MaxQueried == 3
MaxPattern == 6
MaxFaulty == 3
MaxPushed == 2
MaxBanded == 2
MaxScenes == 2
MaxRecorded == 4
MaxStarts == 2
MaxTwinned == 3
MaxPending == 3
MaxHeld == 1

\* The scenes, frames and parameter updates of the callers of scene/mod.rs and
\* render/mod.rs: tests::frame(rms, centroid, beat) and the descriptors and
\* updates of the tests, with a list that names a target twice.
Tunnel == [type |-> "tunnel", speed |-> One]

Descriptors ==
    {Tunnel,
     [type |-> "kaleidoscope", order |-> 0],
     [type |-> "kaleidoscope", order |-> 4],
     [type |-> "stl", asset |-> "mesh.stl", mode |-> "Mesh"],
     [type |-> "particles", emit_rate |-> One]}

\* The descriptors of the scenes handed to the render graph.
Registered == {Tunnel, [type |-> "kaleidoscope", order |-> 4]}

\* The paths handed to set_output_path.
OutputPaths == {"recording.json", "take2.json"}

test_frame(rms, centroid, beat) ==
    [DefaultFrame(Zero) EXCEPT !.rms = rms, !.spectral_centroid = centroid,
                               !.beat_confidence = beat]

SceneFrames ==
    {test_frame(Rat(1, 10), Half, Zero), test_frame(Half, Rat(1, 4), Rat(4, 5))}

UpdateLists ==
    {<<>>,
     <<[target |-> "tunnel.energy", value |-> Rat(3, 4)]>>,
     <<[target |-> "tunnel.energy", value |-> Rat(1, 4)],
       [target |-> "stl.rms", value |-> Half],
       [target |-> "tunnel.energy", value |-> Half]>>}

\* History of the scenes: the first frame the caller's scene was given and the
\* values apply_updates last gave it; for each scene of the graph whether it was
\* ever given a frame; whether a scene was registered since the last
\* ingest_analysis_frame.
NothingSeen == [first |-> None, applied |-> NoParameters, got |-> <<>>, stale |-> FALSE]

Targets(updates) == {updates[i].target : i \in 1..Len(updates)}

\* The value of the last update of the list that names key.
LastUpdate(updates, key) ==
    updates[CHOOSE i \in 1..Len(updates) :
                /\ updates[i].target = key
                /\ \A j \in (i + 1)..Len(updates) : updates[j].target # key].value

Applied(applied, updates) ==
    [key \in DOMAIN applied \cup Targets(updates) |->
        IF key \in Targets(updates) THEN LastUpdate(updates, key) ELSE applied[key]]

-----------------------------------------------------------------------------
(* The state machine.                                                      *)

InitEngine(sample_rate, is_warm, blocks) ==
    /\ \A b \in Blocks : ExactBlock(b)
    /\ engine = with_sample_rate(sample_rate)
    /\ ret = [op |-> "new"]
    /\ fed = 0
    /\ onsets = 0
    /\ est_saw = None
    /\ resets = 0
    /\ warm = is_warm
    /\ budget = blocks
    /\ shared = NewShared(with_sample_rate(SampleRate))
    /\ twin = [engine |-> with_sample_rate(sample_rate), result |-> None]

\* A scene just made of descriptor, an empty render graph, a recorder with settings.
InitVisuals(descriptor, settings) ==
    /\ scene = SceneInstance_new(descriptor)
    /\ graph = RenderGraph_new
    /\ seen = NothingSeen
    /\ recorder = Recorder_new(settings)
    /\ scheduler = Scheduler_new

InitAt(sample_rate, is_warm, blocks) ==
    /\ InitEngine(sample_rate, is_warm, blocks)
    /\ InitVisuals(Tunnel, RecordingSettings_default)

InitWith(is_warm, blocks) == InitAt(SampleRate, is_warm, blocks)

Init == InitWith(FALSE, MaxBlocks)

InitLong == InitWith(TRUE, MaxFree)

InitQuery == InitWith(FALSE, MaxQueried)

InitFault == InitWith(FALSE, MaxFaulty)

InitShared == InitWith(FALSE, MaxPushed)

InitHandles == InitWith(FALSE, MaxHeld)

InitTwin == InitWith(FALSE, MaxTwinned)

InitBands ==
    /\ \E sample_rate \in BandRates : InitAt(sample_rate, FALSE, MaxBanded)
    /\ \A b \in BandBlocks : ExactBlock(b)

InitScene ==
    /\ InitEngine(SampleRate, FALSE, 0)
    /\ \E descriptor \in Descriptors : InitVisuals(descriptor, RecordingSettings_default)

InitRender == InitWith(FALSE, 0)

InitTimeline == InitWith(FALSE, 0)

InitRecord ==
    /\ InitEngine(SampleRate, FALSE, 0)
    /\ \E settings \in {RecordingSettings_default, RecordingSettings_enabled} :
           InitVisuals(Tunnel, settings)

InitPattern ==
    /\ InitWith(FALSE, 0)
    /\ \A b \in PatternBlocks : ExactBlock(b)

\* What a call of process_block that returned out leaves behind.
Returned(samples, out) ==
    /\ engine' = out.engine
    /\ ret' = [op |-> "process_block", samples |-> samples, result |-> out.result]
    /\ fed' = IF out.result.ok THEN fed + Len(samples) ELSE fed
    /\ onsets' = IF IsSome(out.tempo_input) THEN onsets + 1 ELSE onsets
    /\ est_saw' = IF IsSome(out.tempo_input) THEN out.tempo_input ELSE est_saw
    /\ UNCHANGED resets

\* engine.process_block(samples)
Feed(samples) ==
    /\ \E out \in {process_block(engine, samples)} : Returned(samples, out)
    /\ UNCHANGED <<shared, visuals, twin>>

ProcessBlock ==
    \E samples \in Blocks :
        /\ Len(samples) >= 2 => budget > 0
        /\ Feed(samples)
        /\ warm' = FALSE
        /\ budget' = IF Len(samples) >= 2 THEN budget - 1 ELSE budget

ProcessRawBlock ==
    \E samples \in RawBlocks :
        /\ budget > 0
        /\ Feed(samples)
        /\ warm' = FALSE
        /\ budget' = budget - 1

ProcessBandBlock ==
    \E samples \in BandBlocks :
        /\ budget > 0
        /\ Feed(samples)
        /\ warm' = FALSE
        /\ budget' = budget - 1

ProcessWarmBlock ==
    /\ warm
    /\ Len(engine.frames) < MaxWarm
    /\ Feed(WarmBlock(Len(engine.frames)))
    /\ UNCHANGED <<warm, budget>>

\* The caller of tests::updates_duration_and_tempo: the next block of an
\* alternating pattern, begun on a fresh engine.
FeedPattern ==
    /\ Len(engine.frames) < MaxPattern
    /\ \E loud \in PatternBlocks, quiet_first \in BOOLEAN :
           /\ PatternChoice(engine, loud, quiet_first)
           /\ Feed(PatternBlock(loud, quiet_first, Len(engine.frames)))
    /\ UNCHANGED <<warm, budget>>

\* engine.process_block(samples) with a transform that reports an error.
TransformFails ==
    \E samples \in ValidBlocks :
        /\ budget > 0
        /\ \E out \in {process_block_transform_error(engine, samples)} :
               Returned(samples, out)
        /\ warm' = FALSE
        /\ budget' = budget - 1
        /\ UNCHANGED <<shared, visuals, twin>>

Reset ==
    /\ resets < MaxResets
    /\ engine' = reset(engine)
    /\ ret' = [op |-> "reset"]
    /\ fed' = 0
    /\ onsets' = 0
    /\ est_saw' = None
    /\ resets' = resets + 1
    /\ UNCHANGED <<warm, budget, shared, visuals, twin>>

\* The caller with two engines gives a block to both.
ProcessBlockBoth ==
    \E samples \in Blocks :
        /\ Len(samples) >= 2 => budget > 0
        /\ \E out \in {process_block(engine, samples)} : Returned(samples, out)
        /\ \E out \in {process_block(twin.engine, samples)} :
               twin' = [engine |-> out.engine, result |-> Some(out.result)]
        /\ warm' = FALSE
        /\ budget' = IF Len(samples) >= 2 THEN budget - 1 ELSE budget
        /\ UNCHANGED <<shared, visuals>>

\* The caller with two engines resets the first and replaces the second by
\* AnalysisEngine::with_sample_rate(mode, sample_rate).
ResetBoth ==
    /\ resets < MaxResets
    /\ engine' = reset(engine)
    /\ ret' = [op |-> "reset"]
    /\ fed' = 0
    /\ onsets' = 0
    /\ est_saw' = None
    /\ resets' = resets + 1
    /\ twin' = [engine |-> with_sample_rate(engine.sample_rate), result |-> None]
    /\ UNCHANGED <<warm, budget, shared, visuals>>

\* The times a caller asks about: zero, a time no comparison orders (NaN), every
\* stored frame's time and the times just before and just after it.
QueryTimes(e) ==
    {Zero, NaN}
        \cup {e.frames[i].time : i \in 1..Len(e.frames)}
        \cup {RSub(e.frames[i].time, Rat(1, 4 * e.sample_rate)) : i \in 1..Len(e.frames)}
        \cup {RAdd(e.frames[i].time, Rat(1, 4 * e.sample_rate)) : i \in 1..Len(e.frames)}

\* A call of sample_at: the engine is borrowed immutably, the caller gets a frame.
SampleAt ==
    \E time \in QueryTimes(engine) :
        \E frame \in sample_at(engine, time) :
            /\ ret' = [op |-> "sample_at", time |-> time, result |-> frame]
            /\ UNCHANGED <<engine, fed, onsets, est_saw, resets, warm, budget, shared, visuals, twin>>

\* SceneInstance::new(descriptor)
NewScene ==
    \E descriptor \in Descriptors :
        /\ scene' = SceneInstance_new(descriptor)
        /\ seen' = NothingSeen
        /\ ret' = [op |-> "new"]
        /\ UNCHANGED <<graph, recorder, analysis_vars, scheduler>>

\* scene.update(&frame)
SceneUpdate ==
    \E analysis \in SceneFrames :
        /\ scene' = update(scene, analysis)
        /\ seen' = [seen EXCEPT !.first = IF IsSome(@) THEN @ ELSE Some(analysis)]
        /\ ret' = [op |-> "update"]
        /\ UNCHANGED <<graph, recorder, analysis_vars, scheduler>>

\* scene.apply_updates(&updates)
SceneApplyUpdates ==
    \E updates \in UpdateLists :
        /\ scene' = scene_apply_updates(scene, updates)
        /\ seen' = [seen EXCEPT !.applied = Applied(@, updates)]
        /\ ret' = [op |-> "apply_updates"]
        /\ UNCHANGED <<graph, recorder, analysis_vars, scheduler>>

\* graph.register_scene(s): s fresh from SceneInstance::new, or a scene its
\* maker has already called update on.
RegisterScene ==
    \E descriptor \in Registered, before \in {None} \cup {Some(f) : f \in SceneFrames} :
        /\ Len(graph.scenes) < MaxScenes
        /\ graph' = register_scene(graph,
                                   IF IsSome(before)
                                   THEN update(SceneInstance_new(descriptor), Unwrap(before))
                                   ELSE SceneInstance_new(descriptor))
        /\ seen' = [seen EXCEPT !.got = Append(@, IsSome(before)), !.stale = TRUE]
        /\ ret' = [op |-> "register_scene"]
        /\ UNCHANGED <<scene, recorder, analysis_vars, scheduler>>

\* graph.apply_updates(updates)
ApplyUpdates ==
    \E updates \in UpdateLists :
        /\ graph' = apply_updates(graph, updates)
        /\ ret' = [op |-> "apply_updates"]
        /\ UNCHANGED <<scene, seen, recorder, analysis_vars, scheduler>>

\* graph.ingest_analysis_frame(frame)
IngestAnalysisFrame ==
    \E analysis \in SceneFrames :
        /\ graph' = ingest_analysis_frame(graph, analysis)
        /\ seen' = [seen EXCEPT !.got = [i \in 1..Len(@) |-> TRUE], !.stale = FALSE]
        /\ ret' = [op |-> "ingest_analysis_frame"]
        /\ UNCHANGED <<scene, recorder, analysis_vars, scheduler>>

\* graph.draw()
Draw ==
    /\ ret' = [op |-> "draw", result |-> draw(graph)]
    /\ UNCHANGED <<visuals, analysis_vars>>

\* recorder.configure(settings)
Configure ==
    \E settings \in {RecordingSettings_default, RecordingSettings_enabled} :
        /\ recorder' = configure(recorder, settings)
        /\ ret' = [op |-> "configure"]
        /\ UNCHANGED <<scene, graph, seen, analysis_vars, scheduler>>

\* recorder.set_output_path(path)
SetOutputPath ==
    \E path \in OutputPaths :
        /\ recorder' = set_output_path(recorder, path)
        /\ ret' = [op |-> "set_output_path"]
        /\ UNCHANGED <<scene, graph, seen, analysis_vars, scheduler>>

\* recorder.record_frame(&frame)
RecordFrame ==
    \E analysis \in SceneFrames :
        /\ recorder.recorded_frames < MaxRecorded
        /\ Len(recorder.frames) < MaxRecorded
        /\ recorder' = record_frame(recorder, analysis)
        /\ ret' = [op |-> "record_frame", frame |-> analysis]
        /\ UNCHANGED <<scene, graph, seen, analysis_vars, scheduler>>

\* The timestamps and labels of the events a caller schedules, and the times it
\* ticks at: an f32 may be a NaN.
EventTimes == {Half, One, NaN}

EventLabels == {"intro", "drop"}

TickTimes == {Zero, Half, One, NaN}

\* The caller of a scheduler is gone once a call of add_event has panicked.
SchedulerInUse == ~(ret.op = "add_event" /\ ret.result = "panicked")

\* scheduler.add_event(ScheduledEvent::new(timestamp, label))
AddEvent ==
    \E timestamp \in EventTimes, label \in EventLabels :
        /\ SchedulerInUse
        /\ Len(scheduler.events) < MaxPending
        /\ \E out \in add_event(scheduler, ScheduledEvent_new(timestamp, label)) :
               /\ scheduler' = out.scheduler
               /\ ret' = [op |-> "add_event",
                          event |-> ScheduledEvent_new(timestamp, label),
                          result |-> out.result]
        /\ UNCHANGED <<scene, graph, seen, recorder, analysis_vars>>

\* scheduler.tick(now, &analysis)
Tick ==
    \E now \in TickTimes, analysis \in SceneFrames :
        /\ SchedulerInUse
        /\ scheduler' = tick(scheduler, now, analysis).scheduler
        /\ ret' = [op |-> "tick", now |-> now, frame |-> analysis,
                   result |-> tick(scheduler, now, analysis).result]
        /\ UNCHANGED <<scene, graph, seen, recorder, analysis_vars>>

\* The slices the audio thread pushes and the times the render thread asks about.
PushedBlocks == {<<>>, <<Loud>>, Medium3, Click4}

ReadTimes == {Zero, Rat(1, 2)}

\* The guard of thread t is dropped as its call returns with record; e is the
\* engine the last completed writer has left.
Dropped(sh, t, record, e) ==
    [sh EXCEPT !.holder = "none", !.pc[t] = "idle", !.done[t] = record, !.committed = e]

\* AudioEngine::start is called.
CallStart ==
    /\ shared.pc["audio"] = "idle"
    /\ resets < MaxResets
    /\ shared' = [shared EXCEPT !.pc["audio"] = "lock",
                                !.call["audio"] = [op |-> "start", late |-> shared.poisoned]]
    /\ UNCHANGED <<engine, ret, fed, onsets, est_saw, resets, warm, budget, visuals, twin>>

\* push_samples that takes every slice to the lock.
is_empty_never(samples) == FALSE

\* if samples.is_empty() { return Ok(()); }
is_empty(samples) == samples = <<>>

\* AudioEngine::start is called on an AudioEngine that has returned a handle.
CallStartAgain ==
    /\ shared.pc["audio"] = "idle"
    /\ resets >= 1
    /\ resets < MaxStarts
    /\ shared' = [shared EXCEPT !.pc["audio"] = "lock",
                                !.call["audio"] = [op |-> "start", late |-> shared.poisoned]]
    /\ UNCHANGED <<engine, ret, fed, onsets, est_saw, resets, warm, budget, visuals, twin>>

\* AudioEngine::push_samples is called: an empty slice returns Ok(()) at once,
\* any other goes on to lock_analysis.
CallPush ==
    \E samples \in PushedBlocks :
        /\ shared.pc["audio"] = "idle"
        /\ Len(samples) >= 2 => budget > 0
        /\ shared' =
               IF is_empty(samples)
               THEN [shared EXCEPT !.done["audio"] =
                                       [op |-> "push_samples", samples |-> samples,
                                        late |-> shared.poisoned, result |-> Ok("unit")]]
               ELSE [shared EXCEPT !.pc["audio"] = "lock",
                                   !.call["audio"] =
                                       [op |-> "push_samples", samples |-> samples,
                                        late |-> shared.poisoned]]
        /\ budget' = IF Len(samples) >= 2 THEN budget - 1 ELSE budget
        /\ UNCHANGED <<engine, ret, fed, onsets, est_saw, resets, warm, visuals, twin>>

\* AnalysisHandle::sample_at or AnalysisHandle::summary is called, on one of the
\* handles that start() has returned.
CallRead ==
    \E call \in {[op |-> "summary"]} \cup {[op |-> "sample_at", time |-> time] : time \in ReadTimes},
       h \in 1..Len(shared.handles) :
        /\ shared.pc["render"] = "idle"
        /\ resets >= 1
        /\ shared' = [shared EXCEPT !.pc["render"] = "lock",
                                    !.call["render"] =
                                        call @@ [late |-> shared.poisoned, handle |-> h]]
        /\ UNCHANGED <<engine, ret, fed, onsets, est_saw, resets, warm, budget, visuals, twin>>

\* self.analysis.lock() / self.shared.lock() returns to thread t: with the guard,
\* or with the error of a poisoned Mutex, which `?` returns to the caller.
Lock ==
    \E t \in Threads :
        /\ shared.pc[t] = "lock"
        /\ MutexFree(shared)
        /\ shared' =
               IF lock_result(shared).ok
               THEN [shared EXCEPT !.holder = t,
                                   !.pc[t] = FirstStep(shared.call[t].op),
                                   !.call[t] = shared.call[t] @@ [before |-> engine]]
               ELSE [shared EXCEPT !.pc[t] = "idle",
                                   !.done[t] = [result |-> lock_result(shared)] @@ shared.call[t]]
        /\ UNCHANGED <<engine, ret, fed, onsets, est_saw, resets, warm, budget, visuals, twin>>

\* start: the engine has the mode and the sample rate of the AudioEngine that
\* built it, so it is reset; the handle is returned.
StartResets ==
    /\ shared.pc["audio"] = "reset"
    /\ engine' = reset(engine)
    /\ ret' = [op |-> "reset"]
    /\ fed' = 0
    /\ onsets' = 0
    /\ est_saw' = None
    /\ resets' = resets + 1
    /\ shared' = [Dropped(shared, "audio",
                          [result |-> Ok("handle")] @@ shared.call["audio"], reset(engine))
                      EXCEPT !.handles = Append(@, AnalysisHandle_new(reset(engine)))]
    /\ UNCHANGED <<warm, budget, visuals, twin>>

\* push_samples holds the guard and process_block starts: a slice of one sample
\* is refused, and push_samples returns that; any other has its rms taken and
\* goes through update_beats.
PushUpdatesBeats ==
    /\ shared.pc["audio"] = "update_beats"
    /\ \E samples \in {shared.call["audio"].samples} :
           IF Len(samples) < 2
           THEN /\ \E out \in {process_block(engine, samples)} :
                       /\ Returned(samples, out)
                       /\ shared' = Dropped(shared, "audio",
                                            [result |-> out.result] @@ shared.call["audio"],
                                            out.engine)
           ELSE /\ engine' = update_beats(engine,
                                          block_times(engine, Len(samples)).timestamp,
                                          compute_rms(samples)).engine
                /\ shared' = [shared EXCEPT !.pc["audio"] = "transform"]
                /\ UNCHANGED <<ret, fed, onsets, est_saw, resets>>
    /\ UNCHANGED <<warm, budget, visuals, twin>>

\* process_block inside push_samples: compute_frequency_features.
PushTransforms ==
    /\ shared.pc["audio"] = "transform"
    /\ engine' = compute_frequency_features(engine, shared.call["audio"].samples,
                                            engine.processed_samples = 0).engine
    /\ shared' = [shared EXCEPT !.pc["audio"] = "emit"]
    /\ UNCHANGED <<ret, fed, onsets, est_saw, resets, warm, budget, visuals, twin>>

\* process_block inside push_samples: the counter, the duration and the frame are
\* written, push_samples returns what process_block returned and drops the guard.
PushEmits ==
    /\ shared.pc["audio"] = "emit"
    /\ \E out \in {process_block(shared.call["audio"].before,
                                 shared.call["audio"].samples)} :
           /\ Returned(shared.call["audio"].samples, out)
           /\ shared' = Dropped(shared, "audio",
                                [result |-> out.result] @@ shared.call["audio"],
                                out.engine)
    /\ UNCHANGED <<warm, budget, visuals, twin>>

\* AnalysisHandle::sample_at and AnalysisHandle::summary holding the guard: the
\* read is made and the guard dropped.  saw is what the engine showed the reader,
\* between what the engine was when the last completed writer left it.
Read ==
    /\ shared.pc["render"] = "read"
    /\ \E e \in {Behind(shared.handles[shared.call["render"].handle], engine)},
          value \in IF shared.call["render"].op = "summary"
                    THEN {Behind(shared.handles[shared.call["render"].handle], engine).summary}
                    ELSE sample_at(Behind(shared.handles[shared.call["render"].handle], engine),
                                   shared.call["render"].time) :
           /\ shared' = Dropped(shared, "render",
                                [result |-> Ok(value), saw |-> View(e),
                                 between |-> View(shared.committed)]
                                    @@ shared.call["render"],
                                shared.committed)
           /\ ret' = [op |-> shared.call["render"].op, result |-> value]
    /\ UNCHANGED <<engine, fed, onsets, est_saw, resets, warm, budget, visuals, twin>>

\* The thread that holds the guard panics: the guard is dropped as the thread
\* unwinds, which poisons the Mutex.
Panic ==
    \E t \in Threads :
        /\ shared.holder = t
        /\ shared.pc[t] \notin {"idle", "lock", "panicked"}
        /\ shared' = [shared EXCEPT !.holder = "none", !.poisoned = TRUE,
                                    !.pc[t] = "panicked"]
        /\ UNCHANGED <<engine, ret, fed, onsets, est_saw, resets, warm, budget, visuals, twin>>

Next == ProcessBlock \/ Reset

NextQuery == ProcessBlock \/ Reset \/ SampleAt

NextPattern == FeedPattern \/ Reset

NextFault == ProcessBlock \/ TransformFails \/ Reset

NextShared ==
    \/ CallStart \/ CallPush \/ CallRead \/ Lock
    \/ StartResets \/ PushUpdatesBeats \/ PushTransforms \/ PushEmits \/ Read
    \/ Panic

NextHandles ==
    \/ CallStart \/ CallStartAgain \/ CallPush \/ CallRead \/ Lock
    \/ StartResets \/ PushUpdatesBeats \/ PushTransforms \/ PushEmits \/ Read

NextTimeline == AddEvent \/ Tick

NextTwin == ProcessBlockBoth \/ ResetBoth

NextRaw == ProcessRawBlock \/ Reset

NextBands == ProcessBandBlock \/ Reset

NextScene == NewScene \/ SceneUpdate \/ SceneApplyUpdates

NextRender == RegisterScene \/ ApplyUpdates \/ IngestAnalysisFrame \/ Draw

NextRecord == Configure \/ SetOutputPath \/ RecordFrame

NextLong == ProcessWarmBlock \/ ProcessBlock \/ Reset

Spec == Init /\ [][Next]_vars

SpecLong == InitLong /\ [][NextLong]_vars

SpecPattern == InitPattern /\ [][NextPattern]_vars

SpecFault == InitFault /\ [][NextFault]_vars

SpecShared == InitShared /\ [][NextShared]_vars

SpecHandles == InitHandles /\ [][NextHandles]_vars

SpecTimeline == InitTimeline /\ [][NextTimeline]_vars

SpecTwin == InitTwin /\ [][NextTwin]_vars

SpecRaw == Init /\ [][NextRaw]_vars

SpecBands == InitBands /\ [][NextBands]_vars

SpecScene == InitScene /\ [][NextScene]_vars

SpecRender == InitRender /\ [][NextRender]_vars

SpecRecord == InitRecord /\ [][NextRecord]_vars

SpecQuery == InitQuery /\ [][NextQuery]_vars

\* ---------------------------------------------------------------------------
\* Properties of the engine.
\* ---------------------------------------------------------------------------

\* C1. A call of process_block with an empty block or a block of one sample
\* returns Err(InvalidInput) and leaves every field of the engine, the cached
\* transform included, as it was before the call.
C1_InvalidBlockRejected ==
    [][(ret'.op = "process_block" /\ Len(ret'.samples) < 2)
           => (ret'.result = Err("InvalidInput") /\ engine' = engine)]_vars

\* A one-sample block has just been refused by an engine that holds frames,
\* onsets and a planned transform.
C1_Witness ==
    /\ ret.op = "process_block"
    /\ Len(ret.samples) = 1
    /\ ret.result = Err("InvalidInput")
    /\ Len(engine.frames) >= 2
    /\ engine.beat_timestamps # <<>>
    /\ IsSome(engine.fft)

\* The duration is the number of samples accepted since construction or the last
\* reset, divided by the sample rate.
DurationIsTotal ==
    fed > 0 => engine.summary.duration_seconds = Some(Rat(fed, engine.sample_rate))

\* A call of process_block never lowers the duration.
DurationNeverFalls ==
    (ret'.op = "process_block" /\ IsSome(engine.summary.duration_seconds))
        => /\ IsSome(engine'.summary.duration_seconds)
           /\ RLe(Unwrap(engine.summary.duration_seconds),
                  Unwrap(engine'.summary.duration_seconds))

\* C2. After any sequence of successful process_block calls since construction
\* or the last reset, duration_seconds is the total number of samples processed
\* divided by the sample rate, and between resets it never decreases.
C2_DurationTracksSamples == []DurationIsTotal /\ [][DurationNeverFalls]_vars

\* Three or more blocks adding up to nine samples have been accepted after a reset.
C2_Witness ==
    /\ resets >= 1
    /\ Len(engine.frames) >= 3
    /\ fed = 9
    /\ engine.summary.duration_seconds = Some(Rat(9, engine.sample_rate))
    /\ ret.op = "process_block"
    /\ ret.result.ok

\* C3. The frame history is ordered by time: for stored frames i before j,
\* frames[i].time <= frames[j].time, whatever the block lengths and however
\* resets are interleaved.
C3_FramesOrdered ==
    \A i, j \in 1..Len(engine.frames) :
        i < j => RLe(engine.frames[i].time, engine.frames[j].time)

\* Three blocks of three different lengths have been stored after a reset.
C3_Witness ==
    /\ resets >= 1
    /\ Len(engine.frames) >= 3
    /\ \E i \in 1..(Len(engine.frames) - 2) :
           RSub(engine.frames[i + 1].time, engine.frames[i].time)
               # RSub(engine.frames[i + 2].time, engine.frames[i + 1].time)

\* a <= b as f32 compares: false when either side is NaN.
TimeLe(a, b) == a # NaN /\ b # NaN /\ RLe(a, b)

\* The indices of the stored frames at or before time.
AtOrBefore(e, time) == {i \in 1..Len(e.frames) : TimeLe(e.frames[i].time, time)}

\* The stored frame with the greatest time at or before time, or a default frame
\* carrying time when no stored frame is at or before it.
FloorFrame(e, time) ==
    IF AtOrBefore(e, time) = {}
    THEN DefaultFrame(time)
    ELSE e.frames[CHOOSE i \in AtOrBefore(e, time) :
                      \A j \in AtOrBefore(e, time) :
                          TimeLe(e.frames[j].time, e.frames[i].time)]

\* C4. sample_at(t) has floor semantics for every history and every t: a default
\* frame with time t when the history is empty or t precedes every stored frame,
\* the frame with time t on an exact match, and otherwise the stored frame with
\* the greatest time at or before t.
C4_FloorForEveryTime ==
    ret.op = "sample_at" => ret.result = FloorFrame(engine, ret.time)

\* The same statement for the times that compare with the frame times.
C4_FloorForOrderedTimes ==
    (ret.op = "sample_at" /\ ret.time # NaN) => ret.result = FloorFrame(engine, ret.time)

\* A query between two stored frames has returned the earlier of them.
C4_Witness ==
    /\ ret.op = "sample_at"
    /\ Len(engine.frames) >= 3
    /\ ret.result = engine.frames[2]
    /\ RLt(engine.frames[2].time, ret.time)

\* C5. The onset history never holds more than MAX_BEAT_HISTORY timestamps: the
\* cap is applied after every insertion, so it holds for the history the tempo
\* estimator is run on as well.
C5_HistoryBounded ==
    /\ Len(engine.beat_timestamps) <= MAX_BEAT_HISTORY
    /\ IsSome(est_saw) => Len(Unwrap(est_saw)) <= MAX_BEAT_HISTORY

\* More onsets than the capacity have been registered and the estimator has just
\* run on a full history.
C5_Witness ==
    /\ onsets > MAX_BEAT_HISTORY
    /\ Len(engine.beat_timestamps) = MAX_BEAT_HISTORY
    /\ est_saw = Some(engine.beat_timestamps)

\* C6. The capacity of the onset history is 64: after 64 registered onsets all
\* 64 are held, and the first eviction happens on the 65th.
C6_CapacitySixtyFour ==
    onsets <= 64 => Len(engine.beat_timestamps) = onsets

\* C6, with the capacity the engine has: the onset history holds
\* MAX_BEAT_HISTORY = 32 timestamps; up to 32 registered onsets all are held, and
\* from the 33rd on each registration evicts one, leaving 32.
C6_CapacityThirtyTwo ==
    /\ MAX_BEAT_HISTORY = 32
    /\ onsets <= 32 => Len(engine.beat_timestamps) = onsets
    /\ onsets >= 33 => Len(engine.beat_timestamps) = 32

\* The 33rd onset has just been registered and 32 are held.
C6_Witness ==
    /\ onsets = 33
    /\ Len(engine.beat_timestamps) = 32
    /\ ret.op = "process_block"
    /\ ret.result.ok
    /\ engine.beat_timestamps[32] = ret.result.value.time

\* A registration into a full history drops the oldest timestamp and appends the
\* new one.
EvictsOldest ==
    (onsets' = onsets + 1 /\ Len(engine.beat_timestamps) = MAX_BEAT_HISTORY)
        => engine'.beat_timestamps
               = Append(Tail(engine.beat_timestamps), ret'.result.value.time)

\* The onset history is strictly increasing in time.
HistoryIncreasing ==
    \A i \in 1..(Len(engine.beat_timestamps) - 1) :
        RLt(engine.beat_timestamps[i], engine.beat_timestamps[i + 1])

\* C7. Eviction from the onset history is first in, first out: when the capacity
\* is exceeded the oldest timestamps are the ones removed, and the history stays
\* strictly increasing in time.
C7_EvictionIsFifo == []HistoryIncreasing /\ [][EvictsOldest]_vars

\* Two onsets have been evicted: the history is full and its oldest entry is
\* later than the first onset of the stream.
C7_Witness ==
    /\ onsets = MAX_BEAT_HISTORY + 2
    /\ Len(engine.beat_timestamps) = MAX_BEAT_HISTORY
    /\ RLt(engine.frames[2].time, engine.beat_timestamps[1])
    /\ engine.beat_timestamps[MAX_BEAT_HISTORY] = engine.frames[Len(engine.frames)].time

\* The gate of the accepted block that the step from the unprimed to the primed
\* state has processed: its confidence reaches the threshold and the history was
\* empty or its newest timestamp is at least the refractory interval behind.
GateOpen ==
    /\ RLe(BEAT_THRESHOLD, ret'.result.value.beat_confidence)
    /\ \/ engine.beat_timestamps = <<>>
       \/ RLe(MIN_BEAT_INTERVAL,
              RSub(ret'.result.value.time,
                   engine.beat_timestamps[Len(engine.beat_timestamps)]))

\* An accepted block registers its timestamp exactly when its gate is open, and
\* otherwise leaves the onset history and the tempo as they were.
GateDecides ==
    (ret'.op = "process_block" /\ ret'.result.ok)
        => IF GateOpen
           THEN /\ onsets' = onsets + 1
                /\ engine'.beat_timestamps # <<>>
                /\ engine'.beat_timestamps[Len(engine'.beat_timestamps)]
                       = ret'.result.value.time
           ELSE /\ onsets' = onsets
                /\ engine'.beat_timestamps = engine.beat_timestamps
                /\ engine'.summary.tempo_bpm = engine.summary.tempo_bpm

\* Consecutive timestamps of the onset history are at least the refractory
\* interval apart.
OnsetsSpaced ==
    \A i \in 1..(Len(engine.beat_timestamps) - 1) :
        RLe(MIN_BEAT_INTERVAL,
            RSub(engine.beat_timestamps[i + 1], engine.beat_timestamps[i]))

\* C8. A block registers an onset only if its beat confidence is at least 0.6
\* and the history is empty or the newest onset is at least 0.2 s before the
\* block's time; consecutive timestamps of the history differ by at least 0.2 s,
\* and a block failing either condition leaves history and tempo unchanged.
C8_OnsetGating == []OnsetsSpaced /\ [][GateDecides]_vars

\* A block whose confidence reaches the threshold has just been refused because
\* the newest onset is less than the refractory interval behind it.
C8_Witness ==
    /\ ret.op = "process_block"
    /\ ret.result.ok
    /\ RLe(BEAT_THRESHOLD, ret.result.value.beat_confidence)
    /\ engine.beat_timestamps # <<>>
    /\ RLt(engine.beat_timestamps[Len(engine.beat_timestamps)], ret.result.value.time)
    /\ IsSome(engine.summary.tempo_bpm)

\* No tempo is reported while fewer than two onsets have been registered.
TempoNeedsTwoOnsets == onsets < 2 => engine.summary.tempo_bpm = None

\* A tempo that is present is taken away by reset only.
TempoStays ==
    (IsSome(engine.summary.tempo_bpm) /\ ~IsSome(engine'.summary.tempo_bpm))
        => ret'.op = "reset"

\* C9. The tempo estimate is absent while fewer than two onsets have been
\* registered, and once present it never returns to absent under process_block
\* calls: only reset clears it.
C9_TempoPresence == []TempoNeedsTwoOnsets /\ [][TempoStays]_vars

\* A tempo is present and the block just processed registered nothing.
C9_Witness ==
    /\ IsSome(engine.summary.tempo_bpm)
    /\ onsets >= 2
    /\ ret.op = "process_block"
    /\ ret.result.ok
    /\ RLt(ret.result.value.beat_confidence, BEAT_THRESHOLD)

\* C10. After every registered onset that leaves two or more timestamps, the
\* tempo is 60 divided by the mean of the intervals between successive
\* timestamps of the current bounded history (none of them is at or below the
\* epsilon, so none is excluded, and the mean is the span of the history over
\* the number of intervals); timestamps already evicted have no influence.
C10_TempoIsSixtyOverMeanInterval ==
    Len(engine.beat_timestamps) >= 2
        => /\ \A i \in 1..(Len(engine.beat_timestamps) - 1) :
                  RLt(F32_EPSILON,
                      RSub(engine.beat_timestamps[i + 1], engine.beat_timestamps[i]))
           /\ engine.summary.tempo_bpm
                  = Some(RDiv(FromInt(60),
                              RDiv(RSub(engine.beat_timestamps[Len(engine.beat_timestamps)],
                                        engine.beat_timestamps[1]),
                                   FromInt(Len(engine.beat_timestamps) - 1))))

\* An onset has been evicted, and the tempo differs from the one the whole
\* stream of onsets would give.
C10_Witness ==
    /\ onsets > MAX_BEAT_HISTORY
    /\ Len(engine.beat_timestamps) = MAX_BEAT_HISTORY
    /\ IsSome(engine.summary.tempo_bpm)
    /\ engine.summary.tempo_bpm
           # Some(RDiv(FromInt(60),
                       RDiv(RSub(engine.beat_timestamps[MAX_BEAT_HISTORY],
                                 engine.frames[2].time),
                            FromInt(onsets - 1))))

\* C12. reset(), in any reachable state, leaves an empty frame history, an empty
\* onset history, processed_samples = 0, no tempo and no duration, the summary's
\* sample rate equal to the one given at construction, and the cached transform
\* (and its size) as it was.
C12_ResetClearsButKeepsTransform ==
    [][ret'.op = "reset"
           => /\ engine'.frames = <<>>
              /\ engine'.beat_timestamps = <<>>
              /\ engine'.processed_samples = 0
              /\ engine'.summary.tempo_bpm = None
              /\ engine'.summary.duration_seconds = None
              /\ engine'.summary.sample_rate = SampleRate
              /\ engine'.sample_rate = SampleRate
              /\ engine'.fft = engine.fft]_vars

\* reset has just been called on an engine that held a planned transform, and the
\* transform is still there.
C12_Witness ==
    /\ ret.op = "reset"
    /\ IsSome(engine.fft)
    /\ engine.frames = <<>>
    /\ engine.summary = DefaultSummary(SampleRate)

\* No block processed since construction or reset.
Fresh ==
    /\ engine.frames = <<>>
    /\ engine.processed_samples = 0
    /\ engine.summary.duration_seconds = None
    /\ latest_frame(engine) = None

\* One block or more processed since construction or reset.
Streaming ==
    /\ engine.frames # <<>>
    /\ engine.processed_samples > 0
    /\ IsSome(engine.summary.duration_seconds)

\* The moves between fresh and streaming.
FreshStreamingMoves ==
    /\ (ret'.op = "process_block" /\ ret'.result.ok) => Streaming'
    /\ (ret'.op = "process_block" /\ ~ret'.result.ok) => (Fresh' <=> Fresh)
    /\ ret'.op = "reset" => Fresh'

\* C13. The engine is always either fresh (no frames, processed_samples = 0, no
\* duration, no latest frame) or streaming (frames, processed_samples > 0, a
\* duration), never both; it starts fresh, becomes streaming on the first
\* successful process_block, keeps its state on a failed one and returns to
\* fresh on reset().
C13_FreshOrStreaming ==
    /\ Fresh
    /\ [](Fresh # Streaming)
    /\ [][FreshStreamingMoves]_vars

\* A streaming engine has refused a block, and was fresh again before that.
C13_Witness ==
    /\ Streaming
    /\ resets >= 1
    /\ ret.op = "process_block"
    /\ ~ret.result.ok

\* C14. The first block successfully processed after construction, and the first
\* after every reset(), produces a frame with spectral_flux = 0 whatever the
\* samples are.
C14_FirstBlockHasNoFlux ==
    [][(ret'.op = "process_block" /\ ret'.result.ok /\ engine.frames = <<>>)
           => ret'.result.value.spectral_flux = Zero]_vars

\* The first block after a reset carried a spectrum and its frame has no flux.
C14_Witness ==
    /\ resets >= 1
    /\ Len(engine.frames) = 1
    /\ ret.op = "process_block"
    /\ ret.result.ok
    /\ ret.result.value.spectral_flux = Zero
    /\ \E i \in 1..Len(engine.previous_magnitudes) : RLt(Zero, engine.previous_magnitudes[i])

\* C15. When an accepted block differs in length from the block processed
\* immediately before it (and is not the first block), its frame has
\* spectral_flux = 0.
C15_SizeChangeHasNoFlux ==
    [][(/\ ret.op = "process_block"
        /\ ret.result.ok
        /\ ret'.op = "process_block"
        /\ ret'.result.ok
        /\ Len(ret'.samples) # Len(ret.samples))
           => ret'.result.value.spectral_flux = Zero]_vars

\* The sum of the first n entries of the sequence of numbers f.
RECURSIVE SumTo(_, _)
SumTo(f, n) == IF n = 0 THEN Zero ELSE RAdd(SumTo(f, n - 1), f[n])

\* Bin by bin, how much current lies above previous.
Rise(current, previous) ==
    [i \in 1..Len(current) |-> RMax(RSub(current[i], previous[i]), Zero)]

\* The sum over the bins of max(current - previous, 0), divided by the total
\* magnitude of current and clamped to [0, 1]; 0 when that total is within epsilon.
FluxBetween(current, previous) ==
    IF RLe(SumTo(current, Len(current)), FeatureEpsilon) THEN Zero
    ELSE RClamp(RDiv(SumTo(Rise(current, previous), Len(current)),
                     SumTo(current, Len(current))), Zero, One)

\* What C16 says of the flux of a block with spectrum current that follows a block
\* of the same length with spectrum previous.
FluxFollows(flux, current, previous) ==
    /\ flux = FluxBetween(current, previous)
    /\ current = previous => flux = Zero
    /\ (/\ \E i \in 1..Len(current) : RLt(previous[i], current[i])
        /\ RLt(FeatureEpsilon, SumTo(current, Len(current))))
           => RLt(Zero, flux)

\* The magnitude spectrum of every block the caller feeds.
SpectrumOf == [samples \in ValidBlocks |-> MagnitudeSpectrum(samples)]

\* C16. For two consecutive blocks of equal length the second frame's flux is the
\* sum over the bins of max(current - previous, 0) divided by the current total
\* magnitude, clamped to [0, 1]: 0 when the two magnitude spectra are identical,
\* and > 0 when some bin strictly increased and the total is above epsilon.
C16_FluxOfEqualLengthBlocks ==
    [][(/\ ret.op = "process_block"
        /\ ret.result.ok
        /\ ret'.op = "process_block"
        /\ ret'.result.ok
        /\ Len(ret'.samples) = Len(ret.samples))
           => FluxFollows(ret'.result.value.spectral_flux,
                          SpectrumOf[ret'.samples],
                          SpectrumOf[ret.samples])]_vars

\* A block of three samples has followed a softer block of three samples, and a
\* fifth of its magnitude is new.
C16_Witness ==
    /\ Len(engine.frames) >= 2
    /\ ret.op = "process_block"
    /\ ret.result.ok
    /\ ret.samples = Medium3
    /\ engine.frames[Len(engine.frames) - 1].rms = Soft
    /\ ret.result.value.spectral_flux = Rat(1, 5)

\* C17. An all-zero block of any length >= 2, processed in any engine state,
\* returns a frame with rms, beat_confidence, spectral_centroid, low_band_energy,
\* high_band_energy and spectral_flux all 0.
C17_SilentBlockHasZeroFeatures ==
    (/\ ret.op = "process_block"
     /\ Len(ret.samples) >= 2
     /\ \A i \in 1..Len(ret.samples) : ret.samples[i] = Zero)
        => /\ ret.result.ok
           /\ ret.result.value.rms = Zero
           /\ ret.result.value.beat_confidence = Zero
           /\ ret.result.value.spectral_centroid = Zero
           /\ ret.result.value.low_band_energy = Zero
           /\ ret.result.value.high_band_energy = Zero
           /\ ret.result.value.spectral_flux = Zero

\* A silent block of four samples has followed a block of another length that
\* was loud and carried a spectrum.
C17_Witness ==
    /\ ret.op = "process_block"
    /\ ret.samples = Quiet4
    /\ Len(engine.frames) >= 2
    /\ RLt(Zero, engine.frames[Len(engine.frames) - 1].rms)
    /\ RLt(Zero, engine.frames[Len(engine.frames) - 1].spectral_centroid)
    /\ engine.frames[Len(engine.frames)].time
           # RAdd(engine.frames[Len(engine.frames) - 1].time, Rat(4, SampleRate))

\* The length of the blocks of a history of equal-length blocks.
BlockLength(e) == CHOOSE n \in 2..4 : e.frames[1].time = Rat(n, 2 * e.sample_rate)

\* The first loud frame of an alternating history.
FirstLoud(e) == IF e.frames[1].rms = Zero THEN e.frames[2] ELSE e.frames[1]

\* C11. On a fresh engine, equal-length blocks alternating quiet and loud with a
\* loud-onset period of p seconds (p >= 0.2 s, the rise in rms giving a
\* confidence >= 0.6), fed for two cycles or more, yield a tempo of 60 / p; with
\* blocks of n samples p is 2 * n / sample_rate.
C11_TempoOfAlternatingPattern ==
    (/\ Len(engine.frames) >= 4
     /\ RLe(BEAT_THRESHOLD, FirstLoud(engine).beat_confidence)
     /\ RLe(MIN_BEAT_INTERVAL, Rat(2 * BlockLength(engine), engine.sample_rate)))
        => engine.summary.tempo_bpm
               = Some(RDiv(FromInt(60), Rat(2 * BlockLength(engine), engine.sample_rate)))

\* Two cycles of three-sample blocks whose loud block just reaches the threshold
\* have been fed: the period is 0.4 s and the tempo 150.
C11_Witness ==
    /\ Len(engine.frames) = 4
    /\ BlockLength(engine) = 3
    /\ FirstLoud(engine).beat_confidence = BEAT_THRESHOLD
    /\ engine.summary.tempo_bpm = Some(FromInt(150))

\* C20. If the spectral transform reports an error during process_block, the
\* call returns an error, no frame is appended, the frames already in the history
\* are unchanged, and processed_samples and duration_seconds are unchanged.
C20_TransformErrorKeepsHistory ==
    [][(ret'.op = "process_block" /\ Len(ret'.samples) >= 2 /\ ~ret'.result.ok)
           => /\ ret'.result = Err("Message")
              /\ engine'.frames = engine.frames
              /\ engine'.processed_samples = engine.processed_samples
              /\ engine'.summary.duration_seconds = engine.summary.duration_seconds]_vars

\* The transform has just failed on a block that a streaming engine was
\* given, after the onset detector had taken the block's rms.
C20_Witness ==
    /\ ret.op = "process_block"
    /\ ret.result = Err("Message")
    /\ Len(engine.frames) >= 2
    /\ engine.last_rms # engine.frames[Len(engine.frames)].rms
    /\ engine.summary.duration_seconds = Some(Rat(fed, engine.sample_rate))

\* The calls that read through an AnalysisHandle and returned data.
CompletedReads ==
    {t \in Threads : /\ shared.done[t].op \in {"sample_at", "summary"}
                     /\ shared.done[t].result.ok}

\* C18. Under every interleaving of a thread calling push_samples and start with
\* a thread calling sample_at and summary on the same engine, each read observes
\* the engine as it is between two complete write calls: the frames, the counter
\* processed_samples and the summary it sees belong to the same set of fully
\* processed blocks, never to a block half applied.
C18_ReadsSeeWholeWrites ==
    \A t \in CompletedReads :
        /\ shared.done[t].saw = shared.done[t].between
        /\ (shared.done[t].saw.frames = <<>>) = (shared.done[t].saw.processed_samples = 0)
        /\ shared.done[t].saw.summary.duration_seconds
               = IF shared.done[t].saw.processed_samples = 0 THEN None
                 ELSE Some(Rat(shared.done[t].saw.processed_samples, SampleRate))
        /\ (IsSome(shared.done[t].saw.summary.tempo_bpm)
               => Len(shared.done[t].saw.frames) >= 2)

\* The render thread has read one frame and no tempo and waits for the lock
\* again, while the audio thread holds it with a block half applied: the onset
\* detector has set a tempo, the frame is not yet there.
C18_Witness ==
    /\ "render" \in CompletedReads
    /\ Len(shared.done["render"].saw.frames) = 1
    /\ shared.pc["render"] = "lock"
    /\ shared.holder = "audio"
    /\ shared.pc["audio"] = "transform"
    /\ IsSome(engine.summary.tempo_bpm)
    /\ Len(engine.frames) = 1

\* The calls that were made after the Mutex had been poisoned, and have returned.
CallsAfterPoison ==
    {t \in Threads : shared.done[t].op # "none" /\ shared.done[t].late}

\* C19. Once the engine lock is poisoned, every later start, push_samples,
\* sample_at and summary call returns an error and no data, and the error is of
\* a kind of its own, which a caller can tell from InvalidInput and from the kind
\* a transform failure has (Message).
C19_PoisonIsADistinctError ==
    \A t \in CallsAfterPoison :
        /\ ~shared.done[t].result.ok
        /\ shared.done[t].result.err \notin {"InvalidInput", "Message"}

\* What the calls made after the poisoning return: Err(Message), the kind a
\* transform failure has as well, but for push_samples of an empty slice, which
\* returns Ok(()) before it comes to the lock.
C19_PoisonIsAMessage ==
    \A t \in CallsAfterPoison :
        IF shared.done[t].op = "push_samples" /\ shared.done[t].samples = <<>>
        THEN shared.done[t].result = Ok("unit")
        ELSE shared.done[t].result = Err("Message")

\* The sample_at(0.0) calls that returned after the handle's engine had taken in
\* exactly one block, a block that is not silent.
ReadsOfFirstBlockAtZero ==
    {t \in CompletedReads :
        /\ shared.done[t].op = "sample_at"
        /\ shared.done[t].time = Zero
        /\ Len(shared.done[t].saw.frames) = 1
        /\ RLt(Zero, shared.done[t].saw.frames[1].rms)}

\* C21. After start() and one successful push_samples of a block that is not
\* silent, handle.sample_at(0.0) returns a frame with rms > 0, the features of the
\* pushed block, and not a default frame.
C21_HandleSeesPushedBlock ==
    \A t \in ReadsOfFirstBlockAtZero :
        /\ RLt(Zero, shared.done[t].result.value.rms)
        /\ shared.done[t].result.value = shared.done[t].saw.frames[1]

\* What sample_at(0.0) returns then: the frame of the block is stamped with the
\* middle of the block, which is after 0.0, and the default frame is returned.
C21_HandleSeesDefaultFrame ==
    \A t \in ReadsOfFirstBlockAtZero :
        /\ RLt(Zero, shared.done[t].saw.frames[1].time)
        /\ shared.done[t].result.value = DefaultFrame(Zero)

InUnit(x) == RLe(Zero, x) /\ RLe(x, One)

\* rms is not negative and the five other features lie in [0, 1].
InRange(frame) ==
    /\ RLe(Zero, frame.rms)
    /\ InUnit(frame.spectral_centroid)
    /\ InUnit(frame.beat_confidence)
    /\ InUnit(frame.low_band_energy)
    /\ InUnit(frame.high_band_energy)
    /\ InUnit(frame.spectral_flux)

\* The frames of the history and the frame the last process_block returned.
FramesOut ==
    {engine.frames[i] : i \in 1..Len(engine.frames)}
        \cup (IF ret.op = "process_block" /\ ret.result.ok THEN {ret.result.value} ELSE {})

\* C22. Every frame returned by process_block and every frame stored in the
\* history has rms >= 0 and each of spectral_centroid, beat_confidence,
\* low_band_energy, high_band_energy and spectral_flux within [0, 1], for every
\* input block and every engine state.
C22_FeaturesInRange == \A frame \in FramesOut : InRange(frame)

\* What holds of the frames: a frame is in range unless its block held a NaN,
\* which shows in its rms; the frames of the blocks after such a block are in
\* range again.
C22_InRangeButForNaN == \A frame \in FramesOut : InRange(frame) \/ IsNaN(frame.rms)

\* The frequency of bin i (0-based) of a block of len samples.
BinFrequency(e, len, i) == Rat(i * e.sample_rate, len)

\* The magnitudes of the spectrum that lie in the bins named by in_band, added up.
BandMagnitude(e, spectrum, len, in_band) ==
    SumTo([i \in 1..Len(spectrum) |->
               IF in_band[i] THEN spectrum[i] ELSE Zero], Len(spectrum))

LowBins(e, spectrum, len) ==
    [i \in 1..Len(spectrum) |-> RLe(BinFrequency(e, len, i - 1), FromInt(200))]

HighBins(e, spectrum, len) ==
    [i \in 1..Len(spectrum) |-> RLe(FromInt(2000), BinFrequency(e, len, i - 1))]

AllBins(e, spectrum, len) == [i \in 1..Len(spectrum) |-> TRUE]

\* The frame has the two band energies of a block with that spectrum: the shares
\* of the total magnitude at or below 200 Hz and at or above 2000 Hz; and of the
\* two, the greater energy is that of the band with the more magnitude.
BandsOf(e, frame, spectrum, len) ==
    LET total == BandMagnitude(e, spectrum, len, AllBins(e, spectrum, len))
        low == BandMagnitude(e, spectrum, len, LowBins(e, spectrum, len))
        high == BandMagnitude(e, spectrum, len, HighBins(e, spectrum, len))
    IN  RLt(Zero, total) =>
            /\ frame.low_band_energy = RDiv(low, total)
            /\ frame.high_band_energy = RDiv(high, total)
            /\ RLt(high, low) => RLt(frame.high_band_energy, frame.low_band_energy)
            /\ RLt(low, high) => RLt(frame.low_band_energy, frame.high_band_energy)

DrawDecision ==
    ret.op = "draw" =>
        /\ ret.result.ok = (graph.scenes = <<>> \/ \A i \in 1..Len(seen.got) : seen.got[i])
        /\ ~ret.result.ok => ret.result = Err("Message")

\* A call of apply_updates does not turn a failing draw into a succeeding one.
ApplyAloneNeverDraws ==
    ret'.op = "apply_updates" => (draw(graph').ok => draw(graph).ok)

\* C24 as stated. RenderGraph::draw returns Ok exactly when no scene is
\* registered or every registered scene has received at least one analysis
\* frame; a scene registered after the most recent ingest_analysis_frame makes
\* draw return an error until the next ingest_analysis_frame; apply_updates alone
\* never makes draw succeed.
C24_DrawNeedsFrames ==
    /\ [](DrawDecision /\ ((ret.op = "draw" /\ seen.stale) => ~ret.result.ok))
    /\ [][ApplyAloneNeverDraws]_vars

\* C24 as the code has it. RenderGraph::draw returns Ok exactly when no scene is
\* registered or every registered scene has received at least one analysis
\* frame, from the graph or from its maker before it was registered; a scene that
\* has never received a frame makes draw return an error until the next
\* ingest_analysis_frame; apply_updates alone never makes draw succeed.
C24_DrawNeedsFramesInScenes ==
    /\ [](DrawDecision
            /\ ((ret.op = "draw" /\ \E i \in 1..Len(seen.got) : ~seen.got[i])
                    => ~ret.result.ok))
    /\ [][ApplyAloneNeverDraws]_vars

\* After an ingest_analysis_frame a scene that had its frame from its maker was
\* registered next to a scene of the graph, updates were applied, and draw
\* returned Ok.
C24_Witness ==
    /\ ret.op = "draw"
    /\ ret.result.ok
    /\ seen.stale
    /\ Len(graph.scenes) = 2
    /\ IsSome(graph.current_analysis)
    /\ graph.last_updates # <<>>
    /\ graph.scenes[2].last_analysis # graph.current_analysis

\* The parameters a new scene of the same descriptor has after its first frame.
FirstDefaults ==
    IF IsSome(seen.first)
    THEN update(SceneInstance_new(scene.descriptor), Unwrap(seen.first)).parameters
    ELSE NoParameters

\* Each parameter has the value apply_updates last gave it, or else the value
\* derived from the first frame.
LastAppliedOrFirstFrame ==
    /\ DOMAIN scene.parameters = DOMAIN seen.applied \cup DOMAIN FirstDefaults
    /\ \A key \in DOMAIN scene.parameters :
           scene.parameters[key] = IF key \in DOMAIN seen.applied
                                   THEN seen.applied[key]
                                   ELSE FirstDefaults[key]

\* update leaves every parameter that exists as it is.
UpdateKeepsParameters ==
    ret'.op = "update" =>
        \A key \in DOMAIN scene.parameters :
            /\ key \in DOMAIN scene'.parameters
            /\ scene'.parameters[key] = scene.parameters[key]

\* C25. In SceneInstance a parameter set by apply_updates holds the update's
\* value whatever update(frame) calls came before, and update(frame) never
\* overwrites a parameter that exists (it inserts a default where the key is
\* absent), so that after any sequence of update and apply_updates calls a
\* parameter's value is that of the last apply_updates targeting it, or else the
\* value derived from the first frame seen.
C25_UpdatesOverrideDefaults ==
    /\ []LastAppliedOrFirstFrame
    /\ [][UpdateKeepsParameters]_vars

\* A tunnel has seen two frames with different rms, and between them an update
\* list that names tunnel.energy twice: the parameter has the list's last value.
C25_Witness ==
    /\ scene.descriptor = Tunnel
    /\ IsSome(seen.first)
    /\ scene.last_analysis # seen.first
    /\ ret.op = "update"
    /\ "tunnel.energy" \in DOMAIN scene.parameters
    /\ scene.parameters["tunnel.energy"] = Half
    /\ scene.parameters["tunnel.energy"] # Unwrap(scene.last_analysis).rms
    /\ "stl.rms" \in DOMAIN scene.parameters

\* What a call on the recorder does to the count and the frames: record_frame
\* adds one frame and one to the count when recording is enabled and changes
\* nothing when it is not; configure empties both.
RecorderMoves ==
    /\ ret'.op = "record_frame" =>
           IF recorder.settings.enabled
           THEN /\ recorder'.frames = Append(recorder.frames, ret'.frame)
                /\ recorder'.recorded_frames = recorder.recorded_frames + 1
                /\ recorder'.settings = recorder.settings
           ELSE recorder' = recorder
    /\ ret'.op = "configure" =>
           /\ recorder'.recorded_frames = 0
           /\ recorder'.frames = <<>>

\* C26. In every reachable Recorder state recorded_frames() equals
\* frames().len(); record_frame appends exactly one frame and increments the
\* count by one when recording is enabled and changes nothing when it is
\* disabled; configure() resets both to zero and empty.
C26_CountIsNumberOfFrames ==
    /\ [](recorder.recorded_frames = Len(recorder.frames))
    /\ [][RecorderMoves]_vars

\* A recorder with recording enabled and an output path has just recorded its
\* second frame.
C26_Witness ==
    /\ ret.op = "record_frame"
    /\ recorder.settings.enabled
    /\ IsSome(recorder.settings.output_path)
    /\ Len(recorder.frames) = 2
    /\ recorder.recorded_frames = 2

\* C27. Each successful process_block on a block of n samples appends exactly one
\* frame to the history, returns a frame equal to the new latest_frame(), advances
\* processed_samples by exactly n, and stamps the frame with the time
\* (processed_samples before the call + n/2) / sample_rate, the midpoint of the
\* block by the cumulative sample count.
C27_OneFramePerBlockAtItsMidpoint ==
    [][(ret'.op = "process_block" /\ ret'.result.ok)
           => /\ Len(engine'.frames) = Len(engine.frames) + 1
              /\ SubSeq(engine'.frames, 1, Len(engine.frames)) = engine.frames
              /\ Some(ret'.result.value) = latest_frame(engine')
              /\ engine'.processed_samples = engine.processed_samples + Len(ret'.samples)
              /\ ret'.result.value.time
                     = Rat(2 * engine.processed_samples + Len(ret'.samples),
                           2 * engine.sample_rate)]_vars

\* A block of three samples was processed after one of two samples: the frame
\* returned is the second of the history and is stamped (2 + 3/2) / 15.
C27_Witness ==
    /\ ret.op = "process_block"
    /\ ret.result.ok
    /\ Len(ret.samples) = 3
    /\ engine.processed_samples = 5
    /\ Len(engine.frames) = 2
    /\ engine.frames[2] = ret.result.value
    /\ ret.result.value.time = Rat(7, 30)

\* The rms of the block before: that of the newest frame, 0 with no frame.
PreviousRms(e) == IF e.frames = <<>> THEN Zero ELSE e.frames[Len(e.frames)].rms

\* clamp(max(rms - previous_rms, 0) * 12, 0, 1)
ConfidenceOfRise(previous_rms, rms) ==
    IF RLe(rms, previous_rms) THEN Zero
    ELSE IF RLe(One, RMul(FromInt(12), RSub(rms, previous_rms))) THEN One
    ELSE RMul(FromInt(12), RSub(rms, previous_rms))

C29_BufferHoldsLastSpectrum ==
    [][(ret'.op = "process_block" /\ ret'.result.ok)
           => /\ engine'.previous_magnitudes = SpectrumOf[ret'.samples]
              /\ Len(engine'.previous_magnitudes) = Len(ret'.samples) \div 2 + 1
              /\ (/\ Len(engine.frames) = 1
                  /\ Len(engine.previous_magnitudes) = Len(SpectrumOf[ret'.samples]))
                     => ret'.result.value.spectral_flux
                            = FluxBetween(SpectrumOf[ret'.samples],
                                          engine.previous_magnitudes)]_vars

\* The second block of a stream, louder than the first and of its length, has
\* the flux 1/5: against zeros it would have been 1.
C29_Witness ==
    /\ ret.op = "process_block"
    /\ ret.result.ok
    /\ ret.samples = Medium3
    /\ Len(engine.frames) = 2
    /\ engine.frames[1].rms = Soft
    /\ engine.frames[1].spectral_flux = Zero
    /\ engine.frames[2].spectral_flux = Rat(1, 5)
    /\ engine.previous_magnitudes = SpectrumOf[Medium3]

\* A successful process_block has followed a successful process_block on a block
\* of another length.
SizeChanged ==
    /\ ret.op = "process_block"
    /\ ret.result.ok
    /\ ret'.op = "process_block"
    /\ ret'.result.ok
    /\ Len(ret'.samples) # Len(ret.samples)

ZeroFilled(len) == [i \in 1..len |-> Zero]

\* The previous-magnitude buffer the flux loop of the step reads.
BufferRead == ResizedPrevious(engine.previous_magnitudes, Len(SpectrumOf[ret'.samples]))

\* C30. Whenever the transform size changes between two consecutive blocks, the
\* previous-magnitude buffer used to compute the new block's flux has the new
\* spectrum length and is entirely zero-filled: no magnitude of the old-size
\* spectrum is compared against the new spectrum.
C30_SizeChangeZeroFillsBuffer ==
    [][SizeChanged
           => BufferRead = ZeroFilled(Len(SpectrumOf[ret'.samples]))]_vars

\* What the buffer holds then: the spectrum of the block before, cut or padded
\* with zeros to the new length, and whole when the two lengths give as many bins.
C30_SizeChangeKeepsOldBins ==
    [][SizeChanged
           => /\ Len(BufferRead) = Len(SpectrumOf[ret'.samples])
              /\ \A i \in 1..Len(BufferRead) :
                     BufferRead[i] = IF i <= Len(SpectrumOf[ret.samples])
                                     THEN SpectrumOf[ret.samples][i]
                                     ELSE Zero
              /\ ret'.result.value.spectral_flux
                     = FluxBetween(SpectrumOf[ret'.samples], BufferRead)]_vars

\* The step is a call of process_block: with a block of n samples.
ProcessedBlock(n) == ret'.op = "process_block" /\ Len(ret'.samples) = n

\* The step has built transform resources: the engine holds resources it did
\* not hold before.
Rebuilt == engine'.fft # engine.fft

\* No resources are cached, or the cached size is not n.
StaleFor(n) == engine.fft = None \/ Unwrap(engine.fft).size # n

\* What the cache holds after a step: the size of an accepted block, and across
\* reset what it held.
CacheFollowsBlocks ==
    /\ (ret'.op = "process_block" /\ ret'.result.ok)
           => /\ IsSome(engine'.fft)
              /\ Unwrap(engine'.fft).size = Len(ret'.samples)
    /\ (ret.op = "process_block" /\ ret.result.ok
            /\ ret'.op = "process_block" /\ Len(ret'.samples) = Len(ret.samples))
           => ~Rebuilt
    /\ ret'.op = "reset" => ~Rebuilt
    /\ (ret.op = "reset" /\ IsSome(engine.fft)
            /\ ProcessedBlock(Unwrap(engine.fft).size))
           => ~Rebuilt

\* C31. Transform resources are rebuilt during a process_block of length n
\* exactly when no resources are cached or the cached size differs from n; after
\* every successful process_block the cached size equals that block's length,
\* consecutive blocks of equal length never trigger a rebuild, and reset() does
\* not cause the next same-sized block to rebuild.
C31_RebuildIffSizeDiffers ==
    [][/\ \A n \in 0..4 : ProcessedBlock(n) => (Rebuilt <=> StaleFor(n))
       /\ CacheFollowsBlocks]_vars

\* C31 as amended: the rule of rebuilding is that of the blocks of two samples
\* and more; a process_block of fewer samples returns its error before the
\* transform is prepared and builds nothing, cached resources or not.
C31_RebuildIffSizeDiffersOnceValid ==
    [][/\ \A n \in 0..4 :
              ProcessedBlock(n) => (Rebuilt <=> (n >= 2 /\ StaleFor(n)))
       /\ CacheFollowsBlocks]_vars

\* A block of three samples has just been accepted after a reset that followed a
\* block of three samples: the engine still holds the first resources it built.
C31_Witness ==
    /\ ret.op = "process_block"
    /\ ret.result.ok
    /\ Len(ret.samples) = 3
    /\ resets = 1
    /\ Len(engine.frames) = 1
    /\ engine.fft = Some([size |-> 3, alloc |-> 0])

\* The analysis state a later block can depend on: all of the engine but the
\* cached transform.
AnalysisState(e) ==
    [frames |-> e.frames,
     processed_samples |-> e.processed_samples,
     summary |-> e.summary,
     previous_rms |-> e.last_rms,
     onset_history |-> e.beat_timestamps,
     previous_magnitudes |-> e.previous_magnitudes]

\* C32. Any process_block call that returns an error (InvalidInput or a
\* transform failure) leaves the whole analysis state identical to the state
\* before the call: frame history, processed_samples, summary including
\* tempo_bpm, previous_rms, the onset history and the previous-magnitude buffer.
C32_FailedCallLeavesStateIdentical ==
    [][(ret'.op = "process_block" /\ ~ret'.result.ok)
           => AnalysisState(engine') = AnalysisState(engine)]_vars

\* What a failed call leaves: a rejected block leaves the engine as it was, and
\* a failed transform leaves the frames, the sample counter, the duration and the
\* previous-magnitude buffer, while the onset detector has already run.
C32_FailedCallKeepsFramesAndCounter ==
    [][(ret'.op = "process_block" /\ ~ret'.result.ok)
           => /\ ret'.result = Err("InvalidInput") => engine' = engine
              /\ engine'.frames = engine.frames
              /\ engine'.processed_samples = engine.processed_samples
              /\ engine'.summary.duration_seconds = engine.summary.duration_seconds
              /\ engine'.previous_magnitudes = engine.previous_magnitudes
              /\ ret'.result = Err("Message")
                     => engine'.last_rms = compute_rms(ret'.samples)]_vars

\* C33. An engine that has processed any sequence of blocks and is then reset()
\* is observationally equivalent to a newly constructed engine with the same
\* sample rate: given the same blocks afterwards, both return the same result
\* (the same frame, or the same error) from every call and show the same
\* summary, frame history and latest frame after it.
C33_ResetIsAsNew ==
    resets >= 1
        => /\ twin.engine.sample_rate = engine.sample_rate
           /\ twin.engine.summary = engine.summary
           /\ twin.engine.frames = engine.frames
           /\ latest_frame(twin.engine) = latest_frame(engine)
           /\ ret.op = "process_block" => twin.result = Some(ret.result)
           /\ ret.op = "reset" => twin.engine = [engine EXCEPT !.fft = None]

\* Two blocks after a reset, the second a rise that registers an onset: the reset
\* engine has worked with the transform it had cached before the reset, its twin
\* with one it had to build.
C33_Witness ==
    /\ resets = 1
    /\ ret.op = "process_block"
    /\ ret.result.ok
    /\ Len(engine.frames) = 2
    /\ RLt(Zero, engine.frames[2].beat_confidence)
    /\ RLt(Zero, engine.frames[2].spectral_flux)
    /\ engine.beat_timestamps # <<>>
    /\ engine.fft # twin.engine.fft
    /\ twin.engine.frames = engine.frames

\* The step on which a call of push_samples returns to the audio thread: at once,
\* from the lock, or out of process_block.
PushReturns ==
    /\ shared'.pc["audio"] = "idle"
    /\ shared'.done["audio"].op = "push_samples"
    /\ \/ shared.pc["audio"] \notin {"idle", "panicked"}
       \/ shared.pc["audio"] = "idle" /\ shared'.done["audio"] # shared.done["audio"]

\* The call that returns had the guard: it returns out of process_block.
PushHadGuard == shared.holder = "audio"

\* C34. AudioEngine::push_samples called with an empty slice returns Ok and
\* leaves the shared analysis engine unchanged (no frame, no error), whereas a
\* one-sample slice is passed to process_block and returns its InvalidInput
\* error; a block of two samples or more adds exactly one frame to the shared
\* engine.  (A call that finds the Mutex poisoned gets no guard and returns the
\* error of the lock.)
C34_PushSamplesByLength ==
    [][PushReturns
           => /\ Len(shared'.done["audio"].samples) = 0
                     => /\ shared'.done["audio"].result = Ok("unit")
                        /\ shared.pc["audio"] = "idle"
                        /\ engine' = engine
                        /\ shared'.committed = shared.committed
              /\ Len(shared'.done["audio"].samples) >= 1
                     => /\ shared.pc["audio"] # "idle"
                        /\ ~PushHadGuard
                               => /\ shared.pc["audio"] = "lock"
                                  /\ shared.poisoned
                                  /\ shared'.done["audio"].result = Err("Message")
                                  /\ engine' = engine
              /\ (Len(shared'.done["audio"].samples) = 1 /\ PushHadGuard)
                     => /\ ret'.op = "process_block"
                        /\ ret'.samples = shared'.done["audio"].samples
                        /\ shared'.done["audio"].result = Err("InvalidInput")
                        /\ engine' = engine
              /\ (Len(shared'.done["audio"].samples) >= 2 /\ PushHadGuard)
                     => /\ shared'.done["audio"].result.ok
                        /\ shared.call["audio"].before.frames = engine.frames
                        /\ engine'.frames
                               = Append(engine.frames, shared'.done["audio"].result.value)
                        /\ shared'.committed = engine']_vars

\* An empty slice has just been pushed to an engine that holds a frame, and the
\* call has returned Ok with the frame still the only one.
C34_Witness ==
    /\ shared.pc["audio"] = "idle"
    /\ shared.done["audio"].op = "push_samples"
    /\ shared.done["audio"].samples = <<>>
    /\ shared.done["audio"].result = Ok("unit")
    /\ Len(engine.frames) = 1
    /\ shared.committed = engine
    /\ ~shared.poisoned

\* The step on which a call of start() returns a handle.
StartReturns == shared.pc["audio"] = "reset" /\ shared'.pc["audio"] = "idle"

\* The step on which a read through a handle is made.
ReadReturns == shared.pc["render"] = "read" /\ shared'.pc["render"] = "idle"

\* C35. Every call to AudioEngine::start() returns the shared analysis engine to
\* the fresh state (no frames, tempo and duration absent, sample rate preserved),
\* and every AnalysisHandle ever returned by the same AudioEngine refers to that
\* one engine: a read through a handle of an earlier start() is a read of the
\* engine as the resets and the blocks pushed since have left it.
C35_StartResetsAndHandlesShare ==
    /\ [](\A h \in 1..Len(shared.handles) : Behind(shared.handles[h], engine) = engine)
    /\ [][/\ StartReturns
              => /\ engine'.frames = <<>>
                 /\ engine'.processed_samples = 0
                 /\ engine'.summary.tempo_bpm = None
                 /\ engine'.summary.duration_seconds = None
                 /\ engine'.sample_rate = engine.sample_rate
                 /\ engine'.summary.sample_rate = engine.sample_rate
                 /\ shared'.committed = engine'
                 /\ Len(shared'.handles) = Len(shared.handles) + 1
          /\ ReadReturns
              => /\ shared'.done["render"].saw = View(engine)
                 /\ shared'.done["render"].op = "summary"
                        => shared'.done["render"].result = Ok(engine.summary)
                 /\ shared'.done["render"].op = "sample_at"
                        => shared'.done["render"].result.value
                               \in sample_at(engine, shared'.done["render"].time)]_vars

\* The render thread has read, through the handle of the first start(), the
\* frame of a block pushed after the second start().
C35_Witness ==
    /\ resets = 2
    /\ Len(shared.handles) = 2
    /\ shared.pc["render"] = "idle"
    /\ shared.done["render"].op = "sample_at"
    /\ shared.done["render"].handle = 1
    /\ shared.done["render"].result.ok
    /\ Len(engine.frames) = 1
    /\ shared.done["render"].result.value = engine.frames[1]
    /\ shared.done["render"].saw = View(engine)

\* The pending events are in non-decreasing order of timestamp.
PendingSorted ==
    \A i \in 1..(Len(scheduler.events) - 1) :
        RLe(scheduler.events[i].timestamp, scheduler.events[i + 1].timestamp)

\* The events of a sequence that are due at now, and those that are not, in the
\* order of the sequence.
Due(events, now) == SelectSeq(events, LAMBDA event : RLe(event.timestamp, now))

NotDue(events, now) == SelectSeq(events, LAMBDA event : ~RLe(event.timestamp, now))

\* A call of tick returns the pending events that are due, in their order, with
\* the frame given, and leaves the others pending.
TickTriggersDue ==
    ret'.op = "tick"
        => /\ ret'.result = Stamped(Due(scheduler.events, ret'.now), ret'.frame)
           /\ \A i \in 1..(Len(ret'.result) - 1) :
                  RLe(ret'.result[i].timestamp, ret'.result[i + 1].timestamp)
           /\ \A i \in 1..Len(ret'.result) :
                  /\ ret'.result[i].last_analysis = Some(ret'.frame)
                  /\ RLe(ret'.result[i].timestamp, ret'.now)
           /\ scheduler'.events = NotDue(scheduler.events, ret'.now)
           /\ Len(ret'.result) + Len(scheduler'.events) = Len(scheduler.events)

\* A call of add_event returns, with the event pending behind the pending events
\* of its timestamp and before the later ones.
AddEventQueues ==
    ret'.op = "add_event"
        => /\ ret'.result = "returned"
           /\ Len(scheduler'.events) = Len(scheduler.events) + 1
           /\ \E k \in 1..Len(scheduler'.events) :
                  /\ scheduler'.events[k] = ret'.event
                  /\ SubSeq(scheduler'.events, 1, k - 1) = SubSeq(scheduler.events, 1, k - 1)
                  /\ SubSeq(scheduler'.events, k + 1, Len(scheduler'.events))
                         = SubSeq(scheduler.events, k, Len(scheduler.events))
                  /\ \A i \in (k + 1)..Len(scheduler'.events) :
                         RLt(ret'.event.timestamp, scheduler'.events[i].timestamp)

\* C36. After any sequence of Scheduler::add_event and tick calls the pending
\* events are sorted by non-decreasing timestamp; tick(now, frame) returns exactly
\* the pending events with timestamp <= now, in non-decreasing timestamp order
\* (ties in insertion order), each with last_analysis set to the given frame,
\* removes them from the pending set so that no event is ever returned by two
\* ticks, and leaves every event with timestamp > now pending.
C36_TimelineOrdered ==
    /\ []PendingSorted
    /\ [][AddEventQueues /\ TickTriggersDue]_vars

\* No event scheduled so far has a timestamp that is not a number.
TimestampsOrdered ==
    /\ \A i \in 1..Len(scheduler.events) : ~IsNaN(scheduler.events[i].timestamp)
    /\ ret.op = "add_event" => ~IsNaN(ret.event.timestamp)

\* What holds of every timeline: ticks trigger what is due, and the timeline is
\* sorted and add_event returns as long as every timestamp is a number.
C36_TimelineOrderedWhileNumbers ==
    /\ [](TimestampsOrdered => PendingSorted)
    /\ [][/\ TickTriggersDue
          /\ TimestampsOrdered' => AddEventQueues]_vars

====
